---- MODULE Spec2Model ----
(***************************************************************************)
(* virtuald/ews-proxy: the SOAP <-> JSON translation engine of the EWS     *)
(* proxy (soap2json.go, json2soap.go, ews_types.go).                       *)
(*                                                                         *)
(* Strings that the code cuts, joins, trims or parses are modelled as      *)
(* Text: a sequence of atoms, each atom a run of characters the code never *)
(* looks inside (a word, one whitespace character, a decimal literal).     *)
(* The empty Go string "" is the empty Text <<>>.  JSON object keys and    *)
(* XML names, which the code only compares, are plain strings.             *)
(***************************************************************************)
EXTENDS Integers, Sequences, FiniteSets, TLC

VARIABLES ewsTypes, pc, xmlIn, s2jOut, jsonIn, j2sOut, elemIn, elemOut, jvalIn, jvalOut,
          initIn, initOut,
          orderedObj, setCalls, setReturn,
          OwaCanary, request, cctx, response, calls, reply, forwarded,
          chain, mwIndex, chainCtx, retryCount, chainResponse, chainErr, chainReturn, trace,
          goroutines, keepAliveTicker, KeepAlivePeriod, tickersStarted, callbacks

\* the state of the translation engine and of its callers' inputs
translatorVars == <<ewsTypes, pc, xmlIn, s2jOut, jsonIn, j2sOut, elemIn, elemOut, jvalIn, jvalOut>>

initVars == <<initIn, initOut>>

objVars == <<orderedObj, setCalls, setReturn>>

mwVars == <<OwaCanary, request, cctx, response, calls, reply, forwarded>>

chainVars == <<chain, mwIndex, chainCtx, retryCount, chainResponse, chainErr, chainReturn, trace>>

loginVars == <<goroutines, keepAliveTicker, KeepAlivePeriod, tickersStarted, callbacks>>

\* the state of the registry's initializer and of the proxy around the engine
proxyVars == <<initVars, objVars, mwVars, chainVars, loginVars>>

vars == <<translatorVars, proxyVars>>

(***************************************************************************)
(* Bounds of the model.                                                    *)
(***************************************************************************)
\* longest chain of middlewares
MaxMiddlewares == 3

\* login responses handled at the same time
MaxLogins == 2

\* longest list of child nodes of a generated XML element
MaxKids == 2
\* largest integer offered as a JSON number for an enum index or a bitfield
MaxNum == 16
\* longest Items array of a generated response
MaxItems == 2
\* most Set calls made on one OrderedObject
MaxSets == 4

(***************************************************************************)
(* Text helpers (package strings, strconv).                                *)
(***************************************************************************)
Nil == [nil |-> TRUE]

InitializerUnused ==
    /\ initIn = Nil
    /\ initOut = Nil

ObjectUnused ==
    /\ orderedObj = Nil
    /\ setCalls = Nil
    /\ setReturn = Nil

MiddlewareUnused ==
    /\ OwaCanary = Nil
    /\ request = Nil
    /\ cctx = Nil
    /\ response = Nil
    /\ calls = Nil
    /\ reply = Nil
    /\ forwarded = Nil

ChainUnused ==
    /\ chain = Nil
    /\ mwIndex = Nil
    /\ chainCtx = Nil
    /\ retryCount = Nil
    /\ chainResponse = Nil
    /\ chainErr = Nil
    /\ chainReturn = Nil
    /\ trace = Nil

LoginUnused ==
    /\ goroutines = Nil
    /\ keepAliveTicker = Nil
    /\ KeepAlivePeriod = Nil
    /\ tickersStarted = Nil
    /\ callbacks = Nil

\* the translation engine at rest, its registry loaded
TranslatorIdle ==
    /\ xmlIn = Nil
    /\ s2jOut = Nil
    /\ jsonIn = Nil
    /\ j2sOut = Nil
    /\ elemIn = Nil
    /\ elemOut = Nil
    /\ jvalIn = Nil
    /\ jvalOut = Nil

\* the proxy's state where only the translation engine is exercised
ProxyUnused ==
    /\ InitializerUnused
    /\ ObjectUnused
    /\ MiddlewareUnused
    /\ ChainUnused
    /\ LoginUnused

\* the cutset of strings.Trim: tab, carriage return, backspace, newline, blank
\* (the backspace atom is written <BS>)
TrimCutset == {"\t", "\r", "<BS>", "\n", " "}

RECURSIVE TrimLeft(_)
TrimLeft(t) ==
    IF t # <<>> /\ Head(t) \in TrimCutset THEN TrimLeft(Tail(t)) ELSE t

RECURSIVE TrimRight(_)
TrimRight(t) ==
    IF t # <<>> /\ t[Len(t)] \in TrimCutset
    THEN TrimRight(SubSeq(t, 1, Len(t) - 1))
    ELSE t

Trim(t) == TrimRight(TrimLeft(t))

\* strings.Join(names, sep) for a sequence of atoms
RECURSIVE Join(_, _)
Join(names, sep) ==
    IF names = <<>> THEN <<>>
    ELSE IF Len(names) = 1 THEN <<names[1]>>
    ELSE <<names[1], sep>> \o Join(Tail(names), sep)

Digits == <<"0", "1", "2", "3", "4", "5", "6", "7", "8", "9">>

\* the decimal literal of a natural number
RECURSIVE Itoa(_)
Itoa(n) ==
    IF n < 10 THEN Digits[n + 1] ELSE Itoa(n \div 10) \o Digits[(n % 10) + 1]

\* the integers whose decimal literals the model can offer
IntRange == (0 - MaxNum) .. MaxNum

\* strconv.Atoi: an optional sign followed by decimal digits, nothing else
\* (no blanks, no fraction, no exponent); [ok, n]
AtoiParses(text, n) ==
    /\ Len(text) = 1
    /\ \/ n >= 0 /\ text[1] \in {Itoa(n), "+" \o Itoa(n), "0" \o Itoa(n)}
       \/ n <= 0 /\ text[1] = "-" \o Itoa(0 - n)

Atoi(text) ==
    IF \E n \in IntRange : AtoiParses(text, n)
    THEN [ok |-> TRUE, n |-> CHOOSE n \in IntRange : AtoiParses(text, n)]
    ELSE [ok |-> FALSE, n |-> 0]

(***************************************************************************)
(* Simple type kinds (ews_types.go).                                       *)
(***************************************************************************)
T_BOOL == 0
T_NUM == 1
T_STR == 2
T_ENUM == 3
T_LIST == 4

(***************************************************************************)
(* Go values of the JSON trees.                                            *)
(*   SOAP2JSON builds: nil, bool, json.Number, int (an enum index),        *)
(*   string, json.OrderedObject (a slice of members), []interface{}.       *)
(*   JSON2SOAP decodes: nil, bool, json.Number, string,                    *)
(*   map[string]interface{} (a function on its keys), []interface{}.       *)
(***************************************************************************)
JNull == [k |-> "null"]
JBool(b) == [k |-> "bool", b |-> b]
JNum(text) == [k |-> "num", n |-> text]
JInt(i) == [k |-> "int", i |-> i]
JStr(text) == [k |-> "str", s |-> text]
JOObj(members) == [k |-> "oobj", o |-> members]
JList(items) == [k |-> "list", l |-> items]
JMap(m) == [k |-> "map", m |-> m]

\* the empty map[string]interface{}
EmptyMap == [x \in {} |-> JNull]

\* delete(m, key)
MapDelete(m, key) == [x \in (DOMAIN m) \ {key} |-> m[x]]

\* m[key] = v
MapPut(m, key, v) == [x \in (DOMAIN m) \cup {key} |-> IF x = key THEN v ELSE m[x]]

\* m[key] of a Go map: the zero value nil when the key is absent
MapGet(m, key) == IF key \in DOMAIN m THEN m[key] ELSE JNull

(***************************************************************************)
(* The type registry's raw descriptors.  The generated table ews_data.go   *)
(* is not part of the sources at hand: the records below are a small       *)
(* registry in the shape the spec (3.1, 3.2, 4.5) and ews_types.go give,   *)
(* with one type of every kind the translators distinguish.                *)
(***************************************************************************)
\* a child element descriptor (type element): XN is <<prefix, local name>>
El(prefix, local, t) ==
    [XN |-> <<prefix, local>>, JN |-> "", T |-> t, JT |-> <<>>, List |-> FALSE,
     JsonDefault |-> Nil]

\* an attribute descriptor (type element): XN is the attribute's local name
At(name, t) == [XN |-> name, JN |-> "", T |-> t]

\* the zero value of EwsType, before Initialize
ZeroType(name) ==
    [Name |-> name, elements |-> <<>>, Attributes |-> <<>>, JsonExtra |-> <<>>,
     AnyAttr |-> FALSE, IsSimple |-> FALSE, SimpleType |-> T_BOOL, TextAttr |-> "",
     JsonType |-> <<>>, IsList |-> FALSE, JsonListName |-> "",
     EnumValues |-> <<>>, ListItemTypeStr |-> ""]

SimpleOf(name, kind) == [ZeroType(name) EXCEPT !.IsSimple = TRUE, !.SimpleType = kind]

Exch(base) == <<base, ":#Exchange">>

TypeNames ==
    {"xs:string", "xs:boolean", "xs:int", "FlagEnum", "FlagList", "EmailType",
     "FolderIdType", "DistinguishedFolderIdType", "ArrayOfFolderIds",
     "FolderResponseShapeType", "GetFolderType", "ResolveNamesType",
     "RequestServerVersionType", "RequestHeaderType",
     "ServerVersionInfoType", "ResponseHeaderType",
     "FolderType", "ArrayOfFolders", "FolderInfoResponseMessageType",
     "ResolveNamesResponseMessageType", "ArrayOfResponseMessagesType",
     "GetFolderResponseType", "ResolveNamesResponseType", "NamedIdType",
     "SyncFolderHierarchyCreateOrUpdateType", "SyncFolderHierarchyDeleteType",
     "SyncFolderHierarchyChangesType",
     "ItemIdType", "OccurrenceItemIdType", "ArrayOfItemIds"}

RawType(name) ==
    CASE name = "xs:string" -> SimpleOf(name, T_STR)
      [] name = "xs:boolean" -> SimpleOf(name, T_BOOL)
      [] name = "xs:int" -> SimpleOf(name, T_NUM)
      [] name = "FlagEnum" ->
            [SimpleOf(name, T_ENUM) EXCEPT !.EnumValues = <<"None", "A", "B", "C">>]
      [] name = "FlagList" ->
            [SimpleOf(name, T_LIST) EXCEPT !.ListItemTypeStr = "FlagEnum"]
      [] name = "EmailType" ->
            [SimpleOf(name, T_STR) EXCEPT
                !.TextAttr = "Value",
                !.JsonType = Exch("EmailAddress"),
                !.Attributes = <<[At("Kind", "xs:string") EXCEPT !.JN = "RoutingType"]>>]
      [] name = "FolderIdType" ->
            [ZeroType(name) EXCEPT
                !.JsonType = Exch("FolderId"),
                !.Attributes = <<At("Id", "xs:string"), At("ChangeKey", "xs:string")>>]
      [] name = "DistinguishedFolderIdType" ->
            [ZeroType(name) EXCEPT
                !.JsonType = Exch("DistinguishedFolderId"),
                !.Attributes = <<At("Id", "xs:string")>>,
                !.elements = <<El("t", "Mailbox", "EmailType")>>]
      [] name = "ArrayOfFolderIds" ->
            [ZeroType(name) EXCEPT
                !.IsList = TRUE,
                !.elements = <<El("t", "FolderId", "FolderIdType"),
                               El("t", "DistinguishedFolderId", "DistinguishedFolderIdType")>>]
      [] name = "FolderResponseShapeType" ->
            [ZeroType(name) EXCEPT
                !.JsonType = Exch("FolderResponseShape"),
                !.JsonExtra = <<"Extra">>,
                !.Attributes = <<At("Lang", "xs:string")>>,
                !.elements =
                    <<El("t", "BaseShape", "xs:string"),
                      El("t", "Mode", "FlagEnum"),
                      El("t", "Flags", "FlagList"),
                      [El("t", "Tag", "xs:string") EXCEPT !.List = TRUE, !.JN = "Tags"],
                      [El("t", "IncludeMime", "xs:boolean") EXCEPT !.JsonDefault = JBool(FALSE)],
                      [El("t", "Depth", "xs:int") EXCEPT !.JsonDefault = JStr(<<"Shallow">>)]>>]
      [] name = "GetFolderType" ->
            [ZeroType(name) EXCEPT
                !.JsonType = Exch("GetFolderRequest"),
                !.elements = <<El("m", "FolderShape", "FolderResponseShapeType"),
                               El("m", "FolderIds", "ArrayOfFolderIds")>>]
      [] name = "ResolveNamesType" ->
            [ZeroType(name) EXCEPT
                !.JsonType = Exch("ResolveNamesRequest"),
                !.Attributes = <<At("ReturnFullContactData", "xs:boolean"),
                                 At("ContactDataShape", "xs:string")>>,
                !.elements = <<El("m", "ParentFolderIds", "ArrayOfFolderIds"),
                               El("m", "UnresolvedEntry", "xs:string")>>]
      [] name = "RequestServerVersionType" ->
            [ZeroType(name) EXCEPT !.Attributes = <<At("Version", "xs:string")>>]
      [] name = "RequestHeaderType" ->
            [ZeroType(name) EXCEPT
                !.JsonType = Exch("JsonRequestHeaders"),
                !.elements = <<El("t", "RequestServerVersion", "RequestServerVersionType"),
                               El("t", "MailboxCulture", "xs:string")>>]
      [] name = "ServerVersionInfoType" ->
            [ZeroType(name) EXCEPT
                !.Attributes = <<At("MajorVersion", "xs:int"), At("Version", "xs:string")>>]
      [] name = "ResponseHeaderType" ->
            [ZeroType(name) EXCEPT
                !.elements = <<El("t", "ServerVersionInfo", "ServerVersionInfoType")>>]
      [] name = "FolderType" ->
            [ZeroType(name) EXCEPT
                !.JsonType = Exch("Folder"),
                !.elements = <<El("t", "FolderId", "FolderIdType"),
                               El("t", "DisplayName", "xs:string"),
                               El("t", "Mode", "FlagEnum"),
                               El("t", "Flags", "FlagList")>>]
      [] name = "ArrayOfFolders" ->
            [ZeroType(name) EXCEPT
                !.IsList = TRUE,
                !.elements = <<El("t", "Folder", "FolderType")>>]
      [] name = "FolderInfoResponseMessageType" ->
            [ZeroType(name) EXCEPT
                !.JsonType = Exch("FolderInfoResponseMessage"),
                !.Attributes = <<At("ResponseClass", "xs:string")>>,
                !.elements = <<El("m", "ResponseCode", "xs:string"),
                               El("m", "Folders", "ArrayOfFolders")>>]
      [] name = "ResolveNamesResponseMessageType" ->
            [ZeroType(name) EXCEPT
                !.JsonType = Exch("ResolveNamesResponseMessage"),
                !.Attributes = <<At("ResponseClass", "xs:string")>>,
                !.elements = <<El("m", "ResponseCode", "xs:string")>>]
      [] name = "ArrayOfResponseMessagesType" ->
            [ZeroType(name) EXCEPT
                !.JsonListName = "Items",
                !.elements =
                    <<El("m", "GetFolderResponseMessage", "FolderInfoResponseMessageType"),
                      El("m", "ResolveNamesResponseMessage", "ResolveNamesResponseMessageType")>>]
      [] name = "GetFolderResponseType" ->
            [ZeroType(name) EXCEPT
                !.JsonType = Exch("GetFolderResponse"),
                !.elements = <<El("m", "ResponseMessages", "ArrayOfResponseMessagesType"),
                               El("m", "Summary", "xs:string")>>]
      [] name = "ResolveNamesResponseType" ->
            [ZeroType(name) EXCEPT
                !.JsonType = Exch("ResolveNamesResponse"),
                !.elements = <<El("m", "ResponseMessages", "ArrayOfResponseMessagesType")>>]
      [] name = "SyncFolderHierarchyCreateOrUpdateType" ->
            [ZeroType(name) EXCEPT
                !.JsonType = Exch("SyncFolderHierarchyCreateOrUpdate"),
                !.JsonExtra = <<"ChangeType">>,
                !.elements = <<El("t", "Folder", "FolderType")>>]
      [] name = "SyncFolderHierarchyDeleteType" ->
            [ZeroType(name) EXCEPT
                !.JsonType = Exch("SyncFolderHierarchyDelete"),
                !.JsonExtra = <<"ChangeType">>,
                !.elements = <<El("t", "FolderId", "FolderIdType")>>]
      [] name = "SyncFolderHierarchyChangesType" ->
            [ZeroType(name) EXCEPT
                !.elements =
                    <<[El("t", "Create", "SyncFolderHierarchyCreateOrUpdateType") EXCEPT
                          !.JN = "Changes", !.List = TRUE],
                      [El("t", "Update", "SyncFolderHierarchyCreateOrUpdateType") EXCEPT
                          !.JN = "Changes", !.List = TRUE],
                      [El("t", "Delete", "SyncFolderHierarchyDeleteType") EXCEPT
                          !.JN = "Changes", !.List = TRUE]>>]
      [] name = "ItemIdType" ->
            [ZeroType(name) EXCEPT
                !.JsonType = Exch("ItemId"),
                !.Attributes = <<At("Id", "xs:string")>>]
      [] name = "OccurrenceItemIdType" ->
            [ZeroType(name) EXCEPT
                !.JsonType = Exch("OccurrenceItemId"),
                !.Attributes = <<At("Id", "xs:string")>>]
      [] name = "ArrayOfItemIds" ->
            [ZeroType(name) EXCEPT
                !.IsList = TRUE,
                !.elements =
                    <<[El("t", "ItemId", "ItemIdType") EXCEPT !.JN = "Ids"],
                      [El("t", "OccurrenceItemId", "OccurrenceItemIdType") EXCEPT
                          !.JN = "Ids", !.JT = Exch("ItemIdType")]>>]
      [] name = "NamedIdType" ->
            [ZeroType(name) EXCEPT
                !.JsonType = Exch("NamedId"),
                !.Attributes = <<At("Name", "xs:string")>>,
                !.elements = <<[El("t", "Label", "xs:string") EXCEPT !.JN = "Name"],
                               [El("t", "Hint", "xs:string") EXCEPT !.JN = "__type"],
                               El("t", "Note", "xs:string")>>]

(***************************************************************************)
(* Hook tables (ews_types.go).  A hook is held by the name it is           *)
(* registered under; "" is the nil function.                               *)
(***************************************************************************)
jsonHooks == {"ResolveNamesType"}

xmlChoiceHooks == {"SyncFolderHierarchyChangesType"}

(***************************************************************************)
(* Derived tables: EwsType.Initialize and its helpers (ews_types.go).      *)
(* A *EwsType is held by its name and read through ewsTypes.               *)
(***************************************************************************)
EmptyTypes == [x \in {} |-> Nil]

NewEwsJsonElement(xmlName, jsonName, isList) ==
    [JsonName |-> jsonName, IsList |-> isList,
     XmlChoiceHook |-> IF xmlName \in xmlChoiceHooks THEN xmlName ELSE "",
     Elements |-> EmptyTypes,
     TypesNil |-> TRUE, Types |-> EmptyTypes,
     SingleType |-> Nil]

\* strings.Split(jsonType, ":")[0] of a discriminator <<base, ":#Exchange">>
SplitHead(jsonType) == IF jsonType = <<>> THEN "" ELSE jsonType[1]

\* the two keys of a type that brings no hint of its own
HintKeys(jsonType) == {jsonType, <<SplitHead(jsonType) \o "Type", ":#Exchange">>}

\* the keys addInternal registers jt under
AddInternalKeys(jt) ==
    IF jt.jsonType = <<>> THEN HintKeys(RawType(jt.Type).JsonType) ELSE {jt.jsonType}

\* e.Types[t] = jt for every t of keys
SetTypes(e, keys, jt) ==
    [e EXCEPT !.Types =
        [x \in (DOMAIN e.Types) \cup keys |-> IF x \in keys THEN jt ELSE e.Types[x]]]

addInternal(e, jt) == SetTypes(e, AddInternalKeys(jt), jt)

\* add, first step: a single type already there moves into the Types map
Promote(e) ==
    IF e.SingleType # Nil
    THEN [addInternal([e EXCEPT !.TypesNil = FALSE, !.Types = EmptyTypes], e.SingleType)
             EXCEPT !.SingleType = Nil]
    ELSE e

\* add, second step: jt joins the Types map or becomes the single type
AddType(e, jt) == IF ~e.TypesNil THEN addInternal(e, jt) ELSE [e EXCEPT !.SingleType = jt]

\* add, last step: e.Elements[jt.XmlTag.Local] = jt
SetElement(e, jt) ==
    [e EXCEPT !.Elements =
        [x \in (DOMAIN e.Elements) \cup {jt.XmlTag} |->
            IF x = jt.XmlTag THEN jt ELSE e.Elements[x]]]

JeAdd(e, jt) == SetElement(AddType(Promote(e), jt), jt)

\* the index in list of the JSON element named jname (tmp[jname]), 0 if none
JeIndex(list, jname) ==
    IF \E i \in DOMAIN list : list[i].JsonName = jname
    THEN CHOOSE i \in DOMAIN list : list[i].JsonName = jname
    ELSE 0

\* strings.Split(e.XN, ":")[1] and the JSON name of the element descriptor e
ElementName(e) == e.XN[2]

JsonNameOf(e) == IF e.JN # "" THEN e.JN ELSE e.XN[2]

\* Initialize, loop body: the entry of TypeByElementName and the JSON default.
\* st is [TypeByElementName, JsonDefaults, JsonElementList]
WithXmlElement(e, ename, jname, st) ==
    [st EXCEPT
        !.TypeByElementName =
            [x \in (DOMAIN st.TypeByElementName) \cup {ename} |->
                IF x = ename THEN [JsonName |-> jname, Type |-> e.T, IsList |-> e.List]
                ELSE st.TypeByElementName[x]],
        !.JsonDefaults =
            IF e.JsonDefault # Nil
            THEN Append(st.JsonDefaults, [JsonName |-> jname, JsonDefault |-> e.JsonDefault])
            ELSE st.JsonDefaults]

\* Initialize, loop body: the JSON element of the name, created when new
WithJsonElement(v, e, jname, st) ==
    IF JeIndex(st.JsonElementList, jname) = 0
    THEN [st EXCEPT !.JsonElementList =
             Append(st.JsonElementList, NewEwsJsonElement(v.Name, jname, e.List))]
    ELSE st

\* Initialize, loop body: the type jt joins the JSON element je
RegisterType(v, ename, je, jt) ==
    IF v.Name = "ArrayOfResponseMessagesType"
    THEN [je EXCEPT !.TypesNil = FALSE,
                    !.Types = [x \in (DOMAIN je.Types) \cup {<<ename>>} |->
                                  IF x = <<ename>> THEN jt ELSE je.Types[x]]]
    ELSE JeAdd(je, jt)

WithJsonType(v, e, ename, idx, st) ==
    [st EXCEPT !.JsonElementList[idx] =
        RegisterType(v, ename, st.JsonElementList[idx],
                     [Type |-> e.T, XmlTag |-> e.XN, jsonType |-> e.JT])]

IndexedJsonType(v, e, ename, jname, st) ==
    WithJsonType(v, e, ename, JeIndex(st.JsonElementList, jname), st)

NamedElement(v, e, ename, jname, st) ==
    IndexedJsonType(v, e, ename, jname,
        WithJsonElement(v, e, jname, WithXmlElement(e, ename, jname, st)))

InitElement(v, e, st) == NamedElement(v, e, ElementName(e), JsonNameOf(e), st)

\* the loop over v.elements
RECURSIVE InitElements(_, _, _)
InitElements(v, i, st) ==
    IF i > Len(v.elements) THEN st
    ELSE InitElements(v, i + 1, InitElement(v, v.elements[i], st))

\* one order of the values of a candidate map (Go ranges over it in any order)
RECURSIVE MapValuesSeq(_, _)
MapValuesSeq(m, keys) ==
    IF keys = {} THEN <<>>
    ELSE <<m[CHOOSE y \in keys : TRUE]>>
         \o MapValuesSeq(m, keys \ {CHOOSE y \in keys : TRUE})

RECURSIVE AddAll(_, _)
AddAll(je, jts) == IF jts = <<>> THEN je ELSE AddAll(JeAdd(je, Head(jts)), Tail(jts))

\* the candidates a JSON element contributes to its parent's list element
JeCandidates(jee) ==
    IF jee.SingleType # Nil THEN <<jee.SingleType>>
    ELSE MapValuesSeq(jee.Types, DOMAIN jee.Types)

RECURSIVE ListCandidates(_)
ListCandidates(list) ==
    IF list = <<>> THEN <<>> ELSE JeCandidates(Head(list)) \o ListCandidates(Tail(list))

\* Initialize, the loop over v.Attributes: an empty JSON name is the XML name
InitAttributes(attrs) ==
    [i \in DOMAIN attrs |->
        IF attrs[i].JN = "" THEN [attrs[i] EXCEPT !.JN = attrs[i].XN] ELSE attrs[i]]

\* the descriptor that wrote v.Attrs[xn] last
LastAttr(attributes, xn) ==
    attributes[CHOOSE i \in DOMAIN attributes :
                  /\ attributes[i].XN = xn
                  /\ \A j \in DOMAIN attributes : attributes[j].XN = xn => j <= i]

\* Initialize, v.JsonListElement given v.JsonElementList
ListElement(v, list) ==
    IF v.JsonListName # "" \/ v.IsList
    THEN IF v.Name = "ArrayOfResponseMessagesType"
         THEN [NewEwsJsonElement(v.Name, v.JsonListName, TRUE) EXCEPT
                  !.TypesNil = list[1].TypesNil, !.Types = list[1].Types]
         ELSE AddAll(NewEwsJsonElement(v.Name, v.JsonListName, TRUE), ListCandidates(list))
    ELSE Nil

\* the type after Initialize, given its attributes and the result of the loop
\* over its elements
Initialized(v, attributes, st) ==
    [Name |-> v.Name, elements |-> v.elements, Attributes |-> attributes,
     TypeByElementName |-> st.TypeByElementName,
     JsonDefaults |-> st.JsonDefaults,
     JsonElementList |-> st.JsonElementList,
     JsonExtra |-> v.JsonExtra,
     Attrs |-> [xn \in {attributes[i].XN : i \in DOMAIN attributes} |->
                   LastAttr(attributes, xn).T],
     AttrsNames |-> [xn \in {attributes[i].XN : i \in DOMAIN attributes} |->
                        LastAttr(attributes, xn).JN],
     AnyAttr |-> v.AnyAttr, IsSimple |-> v.IsSimple, SimpleType |-> v.SimpleType,
     TextAttr |-> v.TextAttr, JsonType |-> v.JsonType,
     IsList |-> v.IsList, JsonListName |-> v.JsonListName,
     JsonListElement |-> ListElement(v, st.JsonElementList),
     JsonHook |-> IF v.Name \in jsonHooks THEN v.Name ELSE "",
     EnumValues |-> v.EnumValues,
     ListItemTypeStr |-> v.ListItemTypeStr,
     ListItemType |-> v.ListItemTypeStr]

Initialize(v) ==
    Initialized(v, InitAttributes(v.Attributes),
                InitElements(v, 1, [TypeByElementName |-> [x \in {} |-> Nil],
                                    JsonDefaults |-> <<>>, JsonElementList |-> <<>>]))

\* the registry after every type's Initialize has run: the value the global
\* ewsTypes holds once the package is loaded
InitialTypes == [n \in TypeNames |-> Initialize(RawType(n))]

(***************************************************************************)
(* Initialize of a type whose descriptors may name a type that is not      *)
(* registered: ewsTypes[name] is then the nil *EwsType, held here as the   *)
(* unregistered name itself.                                               *)
(***************************************************************************)
\* ews_types.go 262-266: addInternal reads jt.Type.JsonType of a type that
\* brings no hint of its own, a nil pointer dereference when jt.Type is nil
NilDereference(jt) == jt.jsonType = <<>> /\ jt.Type \notin TypeNames

\* ews_types.go 242-257: add panics when it hands such a type to addInternal
AddPanics(e, jt) ==
    \/ e.SingleType # Nil /\ NilDereference(e.SingleType)
    \/ (e.SingleType # Nil \/ ~e.TypesNil) /\ NilDereference(jt)

\* ews_types.go 161-183: the loop body panics for the element descriptor e
ElementPanics(v, e, st) ==
    /\ v.Name # "ArrayOfResponseMessagesType"
    /\ JeIndex(st.JsonElementList, JsonNameOf(e)) # 0
    /\ AddPanics(st.JsonElementList[JeIndex(st.JsonElementList, JsonNameOf(e))],
                 [Type |-> e.T, XmlTag |-> e.XN, jsonType |-> e.JT])

\* the loop over v.elements, stopped by a panic: [panic, st]
RECURSIVE InitElementsOrPanic(_, _, _)
InitElementsOrPanic(v, i, st) ==
    IF i > Len(v.elements) THEN [panic |-> FALSE, st |-> st]
    ELSE IF ElementPanics(v, v.elements[i], st) THEN [panic |-> TRUE, st |-> st]
    ELSE InitElementsOrPanic(v, i + 1, InitElement(v, v.elements[i], st))

RECURSIVE AddAllPanics(_, _)
AddAllPanics(je, jts) ==
    /\ jts # <<>>
    /\ \/ AddPanics(je, Head(jts))
       \/ AddAllPanics(JeAdd(je, Head(jts)), Tail(jts))

\* ews_types.go 186-206: building the list element panics
ListElementPanics(v, list) ==
    /\ v.JsonListName # "" \/ v.IsList
    /\ v.Name # "ArrayOfResponseMessagesType"
    /\ AddAllPanics(NewEwsJsonElement(v.Name, v.JsonListName, TRUE), ListCandidates(list))

\* ews_types.go 211-218: the only check Initialize makes of a name
ListItemPanics(v) == v.ListItemTypeStr # "" /\ v.ListItemTypeStr \notin TypeNames

\* Initialize after the loop over v.elements ended as r
ElementsInitialized(v, r) ==
    IF r.panic \/ ListElementPanics(v, r.st.JsonElementList) \/ ListItemPanics(v)
    THEN [panic |-> TRUE, v |-> Nil]
    ELSE [panic |-> FALSE, v |-> Initialized(v, InitAttributes(v.Attributes), r.st)]

\* v.Initialize(): [panic, v], v the type as Initialize leaves it
InitializeOrPanic(v) ==
    ElementsInitialized(v,
        InitElementsOrPanic(v, 1, [TypeByElementName |-> [x \in {} |-> Nil],
                                   JsonDefaults |-> <<>>, JsonElementList |-> <<>>]))

(***************************************************************************)
(* Operation catalog and the two fixed header descriptors (ews_data.go,    *)
(* generated; modelled from spec 4.5 and the OpDescriptor type).           *)
(***************************************************************************)
SingleElement(jsonName, prefix, local, t) ==
    [NewEwsJsonElement("", jsonName, FALSE) EXCEPT
        !.SingleType = [Type |-> t, XmlTag |-> <<prefix, local>>, jsonType |-> <<>>]]

OpNames == {"GetFolder", "ResolveNames"}

EwsOperations ==
    [n \in OpNames |->
        [Action |-> n,
         Request |-> n \o "Type",
         Response |-> SingleElement(n \o "Response", "m", n \o "Response", n \o "ResponseType"),
         BodyType |-> Exch(n \o "Request"),
         RequestType |-> Exch(n \o "JsonRequest")]]

EwsSoapRequestHeader == "RequestHeaderType"

EwsSoapResponseHeader == SingleElement("Header", "soap", "Header", "ResponseHeaderType")

(***************************************************************************)
(* Errors.  A Go error is a record with its kind; Nil is the nil error.    *)
(* A run-time panic (index out of range, nil dereference) is the kind      *)
(* "panic": the call does not return to its caller.                        *)
(***************************************************************************)
Err(kind, what) == [kind |-> kind, what |-> what]

Panic(what) == Err("panic", what)

(***************************************************************************)
(* OrderedObject (soap2json.go).                                           *)
(***************************************************************************)
NewOrderedObject == [Object |-> <<>>, keys |-> [x \in {} |-> 0]]

\* Get: [value, exists]; keys holds the 0-based slice index
ObjGet(obj, key) ==
    IF key \in DOMAIN obj.keys
    THEN [value |-> obj.Object[obj.keys[key] + 1].Value, exists |-> TRUE]
    ELSE [value |-> JNull, exists |-> FALSE]

ObjSet_Prepend(obj, key, value) ==
    IF key \in DOMAIN obj.keys
    THEN [obj |-> [obj EXCEPT !.Object[obj.keys[key] + 1].Value = value],
          added |-> FALSE]
    ELSE [obj |-> [Object |-> <<[Key |-> key, Value |-> value]>> \o obj.Object,
                   keys |-> [x \in (DOMAIN obj.keys) \cup {key} |->
                                IF x = key THEN 0 ELSE obj.keys[x] + 1]],
          added |-> TRUE]

\* Set without the lookup in obj.keys
ObjSet_AlwaysAppend(obj, key, value) ==
    [obj |-> [Object |-> Append(obj.Object, [Key |-> key, Value |-> value]),
              keys |-> [x \in (DOMAIN obj.keys) \cup {key} |->
                           IF x = key THEN Len(obj.Object) ELSE obj.keys[x]]],
     added |-> TRUE]

\* Set: the object after the call and the returned flag
ObjSet(obj, key, value) ==
    IF key \in DOMAIN obj.keys
    THEN [obj |-> [obj EXCEPT !.Object[obj.keys[key] + 1].Value = value],
          added |-> FALSE]
    ELSE [obj |-> [Object |-> Append(obj.Object, [Key |-> key, Value |-> value]),
                   keys |-> [x \in (DOMAIN obj.keys) \cup {key} |->
                                IF x = key THEN Len(obj.Object) ELSE obj.keys[x]]],
          added |-> TRUE]

ObjPut(obj, key, value) == ObjSet(obj, key, value).obj

(***************************************************************************)
(* XML -> JSON (soap2json.go).  The decoder's tokens:                      *)
(*   [k |-> "start", name, attr], [k |-> "end", name],                     *)
(*   [k |-> "chardata", t], [k |-> "comment"]                              *)
(* where attr is a sequence of [Space, Local, Value].                      *)
(***************************************************************************)
\* the 0-based index of the first label equal to chardata, -1 if none
EnumIndex(values, chardata) ==
    IF \E i \in DOMAIN values : <<values[i]>> = chardata
    THEN (CHOOSE i \in DOMAIN values :
             /\ <<values[i]>> = chardata
             /\ \A j \in DOMAIN values : <<values[j]>> = chardata => i <= j) - 1
    ELSE -1

convertSimpleToJson(typ, chardata) ==
    CASE typ.SimpleType = T_BOOL ->
            JBool(chardata = <<"true">> \/ chardata = <<"1">>)
      [] typ.SimpleType = T_NUM -> JNum(chardata)
      [] typ.SimpleType = T_ENUM ->
            IF EnumIndex(typ.EnumValues, chardata) >= 0
            THEN JInt(EnumIndex(typ.EnumValues, chardata))
            ELSE JStr(chardata)
      [] OTHER -> JStr(chardata)

IsXmlns(attr) == attr.Space = "xmlns" \/ attr.Local = "xmlns"

\* the loop that installs the attributes of el on obj: [obj, err]
RECURSIVE SetAttrs(_, _, _, _)
SetAttrs(attrs, i, typ, obj) ==
    IF i > Len(attrs) THEN [obj |-> obj, err |-> Nil]
    ELSE IF IsXmlns(attrs[i]) THEN SetAttrs(attrs, i + 1, typ, obj)
    ELSE IF attrs[i].Local \in DOMAIN typ.Attrs
    THEN SetAttrs(attrs, i + 1, typ,
            ObjPut(obj, typ.AttrsNames[attrs[i].Local],
                   convertSimpleToJson(ewsTypes[typ.Attrs[attrs[i].Local]], attrs[i].Value)))
    ELSE [obj |-> obj, err |-> Err("unknown attribute", typ.Name)]

WithTypeHint_Never(typ) == NewOrderedObject

\* the object with its type hint, when the type has one
WithTypeHint(typ) ==
    IF typ.JsonType # <<>>
    THEN ObjPut(NewOrderedObject, "__type", JStr(typ.JsonType))
    ELSE NewOrderedObject

\* initRetObject: [obj, listObj, retk, err]; retk says what ret holds:
\* "nil" (nothing), "obj" (the pointer obj), "list" (the slice listObj)
NoRetObject == [obj |-> Nil, listObj |-> <<>>, retk |-> "nil", err |-> Nil]

\* the results of initRetObject for an object type, a being what the loop
\* over the attributes gave
ObjectWithAttributes(a) == [NoRetObject EXCEPT !.obj = a.obj, !.retk = "obj", !.err = a.err]

initRetObject(el, typ) ==
    IF ~typ.IsSimple \/ typ.TextAttr # ""
    THEN IF typ.JsonListName # "" \/ typ.IsList
         THEN IF \E i \in DOMAIN el.attr : ~IsXmlns(el.attr[i])
              THEN [NoRetObject EXCEPT !.err = Err("list has attributes", typ.Name)]
              ELSE IF typ.JsonListName # ""
              THEN [NoRetObject EXCEPT
                       !.obj = ObjPut(WithTypeHint(typ), typ.JsonListName, JList(<<>>)),
                       !.retk = "obj"]
              ELSE [NoRetObject EXCEPT !.retk = "list"]
         ELSE ObjectWithAttributes(SetAttrs(el.attr, 1, typ, WithTypeHint(typ)))
    ELSE NoRetObject

\* typ.JsonHook(typ, obj)
ApplyJsonHook(hook, obj) ==
    CASE hook = "ResolveNamesType" ->
            IF ~ObjGet(obj, "ContactDataShape").exists
            THEN ObjPut(obj, "ContactDataShape", JStr(<<"Default">>))
            ELSE obj
      [] OTHER -> obj

\* the loop over typ.JsonDefaults at the end element
RECURSIVE InsertDefaults(_, _, _)
InsertDefaults(defs, i, obj) ==
    IF i > Len(defs) THEN obj
    ELSE InsertDefaults(defs, i + 1,
            IF ~ObjGet(obj, defs[i].JsonName).exists
            THEN ObjPut(obj, defs[i].JsonName, defs[i].JsonDefault)
            ELSE obj)

\* the value processElement returns at its end element
EndElementValue(typ, st) ==
    CASE st.retk = "obj" ->
            JOObj(ApplyJsonHook(typ.JsonHook,
                                InsertDefaults(typ.JsonDefaults, 1, st.obj)).Object)
      [] st.retk = "list" -> JList(st.listObj)
      [] st.retk = "val" -> st.val
      [] OTHER -> JNull

InstallChild_Overwrite(typ, nextElem, newItem, st) ==
    LET jsonName == nextElem.JsonName
    IN
    IF typ.JsonListName # ""
    THEN IF st.obj = Nil THEN [st EXCEPT !.err = Panic("nil OrderedObject")]
         ELSE [st EXCEPT !.listObj = Append(st.listObj, newItem),
                         !.obj = ObjPut(st.obj, typ.JsonListName,
                                        JList(Append(st.listObj, newItem)))]
    ELSE IF typ.IsList
    THEN [st EXCEPT !.listObj = Append(st.listObj, newItem), !.retk = "list"]
    ELSE IF st.obj = Nil THEN [st EXCEPT !.err = Panic("nil OrderedObject")]
    ELSE IF nextElem.IsList
    THEN IF ObjGet(st.obj, jsonName).exists
         THEN IF ObjGet(st.obj, jsonName).value.k = "list"
              THEN [st EXCEPT !.obj =
                       ObjPut(st.obj, jsonName,
                              JList(Append(ObjGet(st.obj, jsonName).value.l, newItem)))]
              ELSE [st EXCEPT !.err = Err("inconsistent list type", typ.Name)]
         ELSE [st EXCEPT !.obj = ObjPut(st.obj, jsonName, JList(<<newItem>>))]
    ELSE LET item == IF /\ newItem = JNull
                        /\ ewsTypes[nextElem.Type].IsSimple
                        /\ ewsTypes[nextElem.Type].SimpleType = T_STR
                     THEN JStr(<<>>)
                     ELSE newItem
         IN  IF ObjSet(st.obj, jsonName, item).added
             THEN [st EXCEPT !.obj = ObjSet(st.obj, jsonName, item).obj]
             ELSE [st EXCEPT !.obj = ObjSet(st.obj, jsonName, item).obj]

\* the installation of a translated child (soap2json.go 199-228): the state
\* after it, with err set when it fails
InstallChild(typ, nextElem, newItem, st) ==
    LET jsonName == nextElem.JsonName
    IN
    IF typ.JsonListName # ""
    THEN IF st.obj = Nil THEN [st EXCEPT !.err = Panic("nil OrderedObject")]
         ELSE [st EXCEPT !.listObj = Append(st.listObj, newItem),
                         !.obj = ObjPut(st.obj, typ.JsonListName,
                                        JList(Append(st.listObj, newItem)))]
    ELSE IF typ.IsList
    THEN [st EXCEPT !.listObj = Append(st.listObj, newItem), !.retk = "list"]
    ELSE IF st.obj = Nil THEN [st EXCEPT !.err = Panic("nil OrderedObject")]
    ELSE IF nextElem.IsList
    THEN IF ObjGet(st.obj, jsonName).exists
         THEN IF ObjGet(st.obj, jsonName).value.k = "list"
              THEN [st EXCEPT !.obj =
                       ObjPut(st.obj, jsonName,
                              JList(Append(ObjGet(st.obj, jsonName).value.l, newItem)))]
              ELSE [st EXCEPT !.err = Err("inconsistent list type", typ.Name)]
         ELSE [st EXCEPT !.obj = ObjPut(st.obj, jsonName, JList(<<newItem>>))]
    ELSE LET item == IF /\ newItem = JNull
                        /\ ewsTypes[nextElem.Type].IsSimple
                        /\ ewsTypes[nextElem.Type].SimpleType = T_STR
                     THEN JStr(<<>>)
                     ELSE newItem
         IN  IF ObjSet(st.obj, jsonName, item).added
             THEN [st EXCEPT !.obj = ObjSet(st.obj, jsonName, item).obj]
             ELSE [st EXCEPT !.err = Err("collision", typ.Name)]

\* the variables of processElement after a call of initRetObject that gave r
AfterInit(st, r) ==
    [st EXCEPT !.obj = r.obj, !.listObj = r.listObj, !.retk = r.retk, !.err = r.err]

\* the state of processElement after the first initRetObject, when ret is nil
EnsureInit(el, typ, st) ==
    IF st.retk = "nil" THEN AfterInit(st, initRetObject(el, typ)) ELSE st

\* processElement: [ret, err, pos], pos the index of the next unread token.
\* d is the token sequence, pos the next token, el the start element just read.
RECURSIVE processElement(_, _, _, _)
RECURSIVE ProcessTokens(_, _, _, _, _)

\* a start element, after the child was installed: st is the state it left
ChildInstalled(d, pos, el, typ, st) ==
    IF st.err # Nil THEN [ret |-> JNull, err |-> st.err, pos |-> pos]
    ELSE ProcessTokens(d, pos, el, typ, st)

\* a start element, after the child was translated: r is what it gave
ChildTranslated(d, el, typ, nextElem, st, r) ==
    IF r.err # Nil THEN [ret |-> JNull, err |-> r.err, pos |-> r.pos]
    ELSE ChildInstalled(d, r.pos, el, typ, InstallChild(typ, nextElem, r.ret, st))

StartElement_UnknownIgnored(d, pos, el, typ, tok, st) ==
    IF st.err # Nil THEN [ret |-> JNull, err |-> st.err, pos |-> pos + 1]
    ELSE IF tok.name \notin DOMAIN typ.TypeByElementName
    THEN [ret |-> JNull, err |-> Nil, pos |-> pos + 1]
    ELSE ChildTranslated(d, el, typ, typ.TypeByElementName[tok.name], st,
            processElement(d, pos + 1, tok, typ.TypeByElementName[tok.name].Type))

\* a start element tok, st being the state after the object was created
StartElement(d, pos, el, typ, tok, st) ==
    IF st.err # Nil THEN [ret |-> JNull, err |-> st.err, pos |-> pos + 1]
    ELSE IF tok.name \notin DOMAIN typ.TypeByElementName
    THEN [ret |-> JNull, err |-> Err("unknown type", tok.name), pos |-> pos + 1]
    ELSE ChildTranslated(d, el, typ, typ.TypeByElementName[tok.name], st,
            processElement(d, pos + 1, tok, typ.TypeByElementName[tok.name].Type))

\* character data that is not blank, st being the state after the object was
\* created and converted the value of the text
Text(d, pos, el, typ, st, converted) ==
    IF st.err # Nil THEN [ret |-> JNull, err |-> st.err, pos |-> pos + 1]
    ELSE IF typ.TextAttr # "" /\ st.obj = Nil
    THEN [ret |-> JNull, err |-> Panic("nil OrderedObject"), pos |-> pos + 1]
    ELSE IF typ.TextAttr # ""
    THEN ProcessTokens(d, pos + 1, el, typ,
            [st EXCEPT !.obj = ObjPut(st.obj, typ.TextAttr, converted), !.retk = "obj"])
    ELSE ProcessTokens(d, pos + 1, el, typ, [st EXCEPT !.retk = "val", !.val = converted])

\* character data, trimmed
TrimmedText(d, pos, el, typ, st, chardata) ==
    IF Len(chardata) # 0
    THEN Text(d, pos, el, typ, EnsureInit(el, typ, st), convertSimpleToJson(typ, chardata))
    ELSE ProcessTokens(d, pos + 1, el, typ, st)

ProcessTokens(d, pos, el, typ, st) ==
    IF pos > Len(d) THEN [ret |-> JNull, err |-> Err("EOF", ""), pos |-> pos]
    ELSE CASE d[pos].k = "start" ->
                 StartElement(d, pos, el, typ, d[pos], EnsureInit(el, typ, st))
           [] d[pos].k = "end" ->
                 [ret |-> EndElementValue(typ, st), err |-> Nil, pos |-> pos + 1]
           [] d[pos].k = "chardata" -> TrimmedText(d, pos, el, typ, st, Trim(d[pos].t))
           [] OTHER -> ProcessTokens(d, pos + 1, el, typ, st)

\* processElement after the early attribute initialization
AttributesRead(d, pos, el, typ, st) ==
    IF st.err # Nil THEN [ret |-> JNull, err |-> st.err, pos |-> pos]
    ELSE ProcessTokens(d, pos, el, typ, st)

\* the variables of processElement when it starts
NoRet == [obj |-> Nil, listObj |-> <<>>, retk |-> "nil", val |-> JNull, err |-> Nil]

processElement(d, pos, el, typName) ==
    IF typName \notin TypeNames
    THEN [ret |-> JNull, err |-> Err("no type", el.name), pos |-> pos]
    ELSE AttributesRead(d, pos, el, ewsTypes[typName],
            IF Len(el.attr) # 0 THEN EnsureInit(el, ewsTypes[typName], NoRet) ELSE NoRet)

\* getNextElement: [tok, err, pos]
RECURSIVE getNextElement(_, _, _)
getNextElement(x, pos, wantStart) ==
    IF pos > Len(x) THEN [tok |-> Nil, err |-> Err("EOF", ""), pos |-> pos]
    ELSE CASE x[pos].k = "start" ->
                 IF wantStart
                 THEN [tok |-> x[pos], err |-> Nil, pos |-> pos + 1]
                 ELSE [tok |-> Nil, err |-> Err("unexpected element", "wanted end"),
                       pos |-> pos + 1]
           [] x[pos].k = "end" ->
                 IF ~wantStart
                 THEN [tok |-> x[pos], err |-> Nil, pos |-> pos + 1]
                 ELSE [tok |-> Nil, err |-> Err("unexpected element", "wanted start"),
                       pos |-> pos + 1]
           [] OTHER -> getNextElement(x, pos + 1, wantStart)

getNextStartElement(x, pos) == getNextElement(x, pos, TRUE)

\* the type hint set on the members of a translated SOAP element
PrependTypeHint(members, jsonType) ==
    IF jsonType = <<>> THEN members
    ELSE IF Len(members) = 0 THEN <<[Key |-> "__type", Value |-> JStr(jsonType)]>>
    ELSE IF members[1].Key = "__type"
    THEN [members EXCEPT ![1].Value = JStr(jsonType)]
    ELSE <<[Key |-> "__type", Value |-> JStr(jsonType)]>> \o members

\* processSoapElement: [obj, err, pos]; obj is JNull for the nil
\* json.OrderedObject.  r is what processElement gave
SoapElement(el, jsonType, r) ==
    IF r.err # Nil \/ r.ret = JNull
    THEN [obj |-> JNull, err |-> r.err, pos |-> r.pos]
    ELSE IF r.ret.k # "oobj"
    THEN [obj |-> JNull, err |-> Err("invalid return value", el.name), pos |-> r.pos]
    ELSE [obj |-> JOObj(PrependTypeHint(r.ret.o, jsonType)), err |-> Nil, pos |-> r.pos]

processSoapElement(d, pos, el, typName, jsonType) ==
    SoapElement(el, jsonType, processElement(d, pos, el, typName))

\* strings.HasPrefix(ver, p) for a version string, whose first atom is its
\* product family ("Exchange2010") and whose other atoms are the service pack
HasPrefix(ver, p) == ver # <<>> /\ ver[1] = p

UpgradeVersion_Only2010(ver) == IF HasPrefix(ver, "Exchange2010") THEN <<"Exchange2013">> ELSE ver

UpgradeVersion(ver) ==
    IF HasPrefix(ver, "Exchange2007") \/ HasPrefix(ver, "Exchange2010")
    THEN <<"Exchange2013">>
    ELSE ver

\* the value header[i].Value ends with, for the member RequestServerVersion
\* whose value is the object v: the last string member named Version wins
RECURSIVE CollapseVersion(_, _, _)
CollapseVersion(v, j, value) ==
    IF j > Len(v) THEN value
    ELSE CollapseVersion(v, j + 1,
            IF v[j].Key = "Version" /\ v[j].Value.k = "str"
            THEN JStr(UpgradeVersion(v[j].Value.s))
            ELSE value)

\* the HACK loop over the members of the translated header
FixHeader(header) ==
    [i \in DOMAIN header |->
        IF header[i].Key = "RequestServerVersion" /\ header[i].Value.k = "oobj"
        THEN [header[i] EXCEPT !.Value = CollapseVersion(header[i].Value.o, 1, header[i].Value)]
        ELSE header[i]]

\* the header synthesized when the Header element translated to nothing
CustomHeader ==
    ObjPut(ObjPut(NewOrderedObject, "__type", JStr(<<"JsonRequestHeaders", ":#Exchange">>)),
           "RequestServerVersion", JStr(<<"Exchange2013">>)).Object

\* the result of SOAP2JSON: ret is the message whose serialization is returned
\* (Nil when no bytes are), op the name of the returned descriptor ("" for nil)
S2JResult(ret, op, err) == [ret |-> ret, op |-> op, err |-> err]

\* the loop "for !gotHeader || !gotBody" and what follows it;
\* st is [gotHeader, gotBody, header, body, msgType, op], where header and body
\* are JNull for the nil json.OrderedObject
RECURSIVE Soap2JsonLoop(_, _, _)

\* after the loop: e is the end element of the envelope
Message(st, e) ==
    IF e.err # Nil THEN S2JResult(Nil, st.op, e.err)
    ELSE S2JResult(JOObj(<<[Key |-> "__type", Value |-> JStr(st.msgType)],
                           [Key |-> "Header", Value |-> st.header],
                           [Key |-> "Body", Value |-> st.body]>>),
                   st.op, Nil)

\* case "Header", h being what processSoapElement gave
HeaderTranslated(d, st, h) ==
    IF h.err # Nil THEN S2JResult(Nil, st.op, h.err)
    ELSE Soap2JsonLoop(d, h.pos,
            [st EXCEPT !.gotHeader = TRUE,
                       !.header = IF h.obj # JNull THEN JOObj(FixHeader(h.obj.o))
                                  ELSE JOObj(CustomHeader)])

\* case "Body", after the operation element was translated to b and the end
\* element e of the body was asked for
BodyClosed(d, st, name, op, b, e) ==
    IF e.err # Nil THEN S2JResult(Nil, name, e.err)
    ELSE Soap2JsonLoop(d, e.pos,
            [st EXCEPT !.gotBody = TRUE, !.body = b.obj,
                       !.msgType = op.RequestType, !.op = name])

BodyTranslated(d, st, name, op, b) ==
    IF b.err # Nil THEN S2JResult(Nil, name, b.err)
    ELSE BodyClosed(d, st, name, op, b, getNextElement(d, b.pos, FALSE))

\* case "Body", a being the start element of the operation and op its descriptor
Operation(d, st, a, op) ==
    BodyTranslated(d, st, a.tok.name, op,
        processSoapElement(d, a.pos, a.tok, op.Request, op.BodyType))

OperationElement(d, st, a) ==
    IF a.err # Nil THEN S2JResult(Nil, st.op, a.err)
    ELSE IF a.tok.name \notin DOMAIN EwsOperations
    THEN S2JResult(Nil, "", Err("unknown operation", a.tok.name))
    ELSE Operation(d, st, a, EwsOperations[a.tok.name])

\* one turn of the loop, n being the next start element
EnvelopeChild(d, st, n) ==
    IF n.err # Nil THEN S2JResult(Nil, st.op, n.err)
    ELSE CASE n.tok.name = "Header" ->
                 IF st.gotHeader
                 THEN S2JResult(Nil, st.op, Err("multiple SOAP headers", ""))
                 ELSE HeaderTranslated(d, st,
                         processSoapElement(d, n.pos, n.tok, EwsSoapRequestHeader,
                                            ewsTypes[EwsSoapRequestHeader].JsonType))
           [] n.tok.name = "Body" ->
                 IF st.gotBody
                 THEN S2JResult(Nil, st.op, Err("multiple SOAP bodies", ""))
                 ELSE OperationElement(d, st, getNextStartElement(d, n.pos))
           [] OTHER -> Soap2JsonLoop(d, n.pos, st)

Soap2JsonLoop(d, pos, st) ==
    IF st.gotHeader /\ st.gotBody
    THEN Message(st, getNextElement(d, pos, FALSE))
    ELSE EnvelopeChild(d, st, getNextStartElement(d, pos))

\* SOAP2JSON after its first start element el was read
Envelope(d, el) ==
    IF el.err # Nil THEN S2JResult(Nil, "", el.err)
    ELSE IF el.tok.name # "Envelope"
    THEN S2JResult(Nil, "", Err("not a SOAP document", ""))
    ELSE Soap2JsonLoop(d, el.pos,
            [gotHeader |-> FALSE, gotBody |-> FALSE, header |-> JNull, body |-> JNull,
             msgType |-> <<>>, op |-> ""])

SOAP2JSON(d) == Envelope(d, getNextStartElement(d, 1))

(***************************************************************************)
(* JSON -> XML (json2soap.go).  The encoder's output is the sequence of    *)
(* tokens written: [k |-> "start", tag, attrs], [k |-> "chardata", t],     *)
(* [k |-> "end", tag], with tag the <<prefix, local>> pair of XmlTag.      *)
(* A translating function returns [out, err]: the tokens it wrote and its  *)
(* error (Nil when it succeeded).                                          *)
(***************************************************************************)
Ok(out) == [out |-> out, err |-> Nil]
Fail(out, err) == [out |-> out, err |-> err]

EmitStart(jtyp, attrs) == [k |-> "start", tag |-> jtyp.XmlTag, attrs |-> attrs]
EmitEnd(jtyp) == [k |-> "end", tag |-> jtyp.XmlTag]
CharData(text) == [k |-> "chardata", t |-> text]

\* toString: [s, err]
toString(o) ==
    CASE o.k = "bool" -> [s |-> IF o.b THEN <<"true">> ELSE <<"false">>, err |-> Nil]
      [] o.k = "num" -> [s |-> o.n, err |-> Nil]
      [] o.k = "str" -> [s |-> o.s, err |-> Nil]
      [] o.k = "null" -> [s |-> <<>>, err |-> Nil]
      [] OTHER -> [s |-> <<>>, err |-> Err("expected simple type", o.k)]

\* the character data written for the text toString gave
TextToken(text) ==
    IF text.err # Nil THEN Fail(<<>>, text.err) ELSE Ok(<<CharData(text.s)>>)

processJsonChardata(el) == TextToken(toString(el))

IsCharData(e) ==
    /\ e.TypesNil
    /\ \/ e.SingleType = Nil
       \/ /\ ewsTypes[e.SingleType.Type].IsSimple
          /\ ewsTypes[e.SingleType.Type].TextAttr = ""

\* bitfield.NewFromUint32(uint32(num)).Test(index): bit index of the two's
\* complement of num, for index below the width of the field
BitTest_OffByOne(num, index) == (num \div (2 ^ (index + 1))) % 2 = 1

BitTest(num, index) == (num \div (2 ^ index)) % 2 = 1

\* the labels whose bit is set, in the order of the enum's label list
RECURSIVE BitNames(_, _, _)
BitNames(values, i, num) ==
    IF i > Len(values) THEN <<>>
    ELSE (IF BitTest(num, i - 1) THEN <<values[i]>> ELSE <<>>)
         \o BitNames(values, i + 1, num)

\* the test of json2soap.go 366: je is a simple list of enum
IsEnumList(je) ==
    /\ je.SingleType # Nil
    /\ ewsTypes[je.SingleType.Type].IsSimple
    /\ ewsTypes[je.SingleType.Type].SimpleType = T_LIST
    /\ ewsTypes[je.SingleType.Type].ListItemType # ""
    /\ ewsTypes[ewsTypes[je.SingleType.Type].ListItemType].IsSimple
    /\ ewsTypes[ewsTypes[je.SingleType.Type].ListItemType].SimpleType = T_ENUM

\* json2soap.go 367-399: the element emitted for a bitfield value; num is
\* what strconv.Atoi gave for the text of the value
EnumListElement(je, num) ==
    IF ~num.ok THEN Fail(<<>>, Err("not an integer", je.JsonName))
    ELSE Ok(<<EmitStart(je.SingleType, <<>>),
              CharData(Join(BitNames(
                  ewsTypes[ewsTypes[je.SingleType.Type].ListItemType].EnumValues, 1, num.n),
                  " ")),
              EmitEnd(je.SingleType)>>)

EnumListText(je, numStr) ==
    IF numStr.err # Nil THEN Fail(<<>>, Err("list value not a string", je.JsonName))
    ELSE EnumListElement(je, Atoi(numStr.s))

processEnumList(obj, je) == EnumListText(je, toString(obj))

\* json2soap.go 240-250: an enum value, num being what strconv.Atoi gave
EnumElement(edesc, ewsType, num) ==
    IF ~num.ok
    THEN Fail(<<EmitStart(edesc.SingleType, <<>>)>>, Err("not an integer", edesc.JsonName))
    ELSE IF num.n < 0 \/ num.n >= Len(ewsType.EnumValues)
    THEN Fail(<<EmitStart(edesc.SingleType, <<>>)>>, Panic("index out of range"))
    ELSE Ok(<<EmitStart(edesc.SingleType, <<>>),
              CharData(<<ewsType.EnumValues[num.n + 1]>>),
              EmitEnd(edesc.SingleType)>>)

\* json2soap.go 233-255: a scalar whose text toString gave
ScalarElement(edesc, ewsType, text) ==
    IF text.err # Nil THEN Fail(<<EmitStart(edesc.SingleType, <<>>)>>, text.err)
    ELSE IF ewsType.IsSimple /\ ewsType.SimpleType = T_ENUM
    THEN EnumElement(edesc, ewsType, Atoi(text.s))
    ELSE Ok(<<EmitStart(edesc.SingleType, <<>>), CharData(text.s),
              EmitEnd(edesc.SingleType)>>)

\* json2soap.go 224-255: a scalar value
processJsonScalar(el, edesc) ==
    IF ~IsCharData(edesc) THEN Fail(<<>>, Err("unexpected simple content", edesc.JsonName))
    ELSE IF edesc.SingleType = Nil THEN Fail(<<>>, Panic("nil SingleType"))
    ELSE ScalarElement(edesc, ewsTypes[edesc.SingleType.Type], toString(el))

\* the XML-choice hooks: [jtyp, err]
ApplyXmlChoiceHook(hook, edesc, element) ==
    LET changeType == MapGet(element, "ChangeType")
    IN  IF /\ hook = "SyncFolderHierarchyChangesType"
           /\ changeType.k = "str"
           /\ Len(changeType.s) = 1
           /\ <<"t", changeType.s[1]>> \in DOMAIN edesc.Elements
        THEN [jtyp |-> edesc.Elements[<<"t", changeType.s[1]>>], err |-> Nil]
        ELSE [jtyp |-> Nil, err |-> Err("invalid ChangeType", edesc.JsonName)]

ResolveType_HintFirst(element, edesc) ==
    IF MapGet(element, "__type").k = "str" /\ MapGet(element, "__type").s \in DOMAIN edesc.Types
    THEN [jtyp |-> edesc.Types[MapGet(element, "__type").s], err |-> Nil]
    ELSE IF edesc.SingleType # Nil THEN [jtyp |-> edesc.SingleType, err |-> Nil]
    ELSE IF edesc.XmlChoiceHook # "" THEN ApplyXmlChoiceHook(edesc.XmlChoiceHook, edesc, element)
    ELSE [jtyp |-> Nil, err |-> Err("no hint", edesc.JsonName)]

\* json2soap.go 271-296: the type an object is translated against: [jtyp, err]
ResolveType(element, edesc) ==
    IF edesc.SingleType # Nil THEN [jtyp |-> edesc.SingleType, err |-> Nil]
    ELSE IF edesc.XmlChoiceHook # "" THEN ApplyXmlChoiceHook(edesc.XmlChoiceHook, edesc, element)
    ELSE IF MapGet(element, "__type").k # "str"
    THEN [jtyp |-> Nil, err |-> Err("no hint", edesc.JsonName)]
    ELSE IF MapGet(element, "__type").s \notin DOMAIN edesc.Types
    THEN [jtyp |-> Nil, err |-> Err("hint not found", edesc.JsonName)]
    ELSE [jtyp |-> edesc.Types[MapGet(element, "__type").s], err |-> Nil]

\* json2soap.go 312-323: [attrs, element, err]
RECURSIVE CollectAttrs(_, _, _, _)

\* the attribute attributes[i], present in the object, whose text toString gave
CollectAttr(attributes, i, element, attrs, text) ==
    IF text.err # Nil
    THEN [attrs |-> attrs, element |-> element,
          err |-> Err("invalid attribute", attributes[i].JN)]
    ELSE CollectAttrs(attributes, i + 1, MapDelete(element, attributes[i].JN),
            Append(attrs, [Name |-> attributes[i].XN, Value |-> text.s]))

CollectAttrs(attributes, i, element, attrs) ==
    IF i > Len(attributes) THEN [attrs |-> attrs, element |-> element, err |-> Nil]
    ELSE IF attributes[i].JN \in DOMAIN element
    THEN CollectAttr(attributes, i, element, attrs, toString(element[attributes[i].JN]))
    ELSE CollectAttrs(attributes, i + 1, element, attrs)

\* json2soap.go 413-415
RECURSIVE DeleteExtras(_, _)
DeleteExtras(element, extras) ==
    IF extras = <<>> THEN element
    ELSE DeleteExtras(MapDelete(element, Head(extras)), Tail(extras))

\* json2soap.go 417: len(element) != 0 after everything declared was consumed
HasExtraElements_Lax(element) == FALSE

HasExtraElements(element) == DOMAIN element # {}

RECURSIVE processJson(_, _)
RECURSIVE processJsonObject(_, _)
RECURSIVE processJsonList(_, _)
RECURSIVE ProcessChildren(_, _, _, _)
RECURSIVE ProcessItems(_, _, _, _)

processJson(element, edesc) ==
    CASE element.k = "map" -> processJsonObject(element.m, edesc)
      [] element.k = "list" -> processJsonList(element.l, edesc)
      [] element.k = "null" -> Ok(<<>>)
      [] OTHER -> processJsonScalar(element, edesc)

\* json2soap.go 363-408: [out, element, err], element with the keys read deleted

\* the child list[i], present in the object, translated to r
ChildWritten(list, i, element, out, r) ==
    IF r.err # Nil
    THEN [out |-> out \o r.out, element |-> element, err |-> r.err]
    ELSE ProcessChildren(list, i + 1, MapDelete(element, list[i].JsonName), out \o r.out)

ProcessChildren(list, i, element, out) ==
    IF i > Len(list) THEN [out |-> out, element |-> element, err |-> Nil]
    ELSE IF list[i].JsonName \in DOMAIN element
    THEN ChildWritten(list, i, element, out,
            IF IsEnumList(list[i])
            THEN processEnumList(element[list[i].JsonName], list[i])
            ELSE processJson(element[list[i].JsonName], list[i]))
    ELSE ProcessChildren(list, i + 1, element, out)

\* json2soap.go 330-341: the text of a simple type with attributes, written as c
TextBody(typ, element, c) ==
    IF c.err # Nil
    THEN [out |-> <<>>, element |-> element, err |-> c.err]
    ELSE [out |-> c.out, element |-> MapDelete(element, typ.TextAttr), err |-> Nil]

\* json2soap.go 343-356: the list of a list type, written as r
ListBody(typ, element, r) ==
    [out |-> r.out,
     element |-> IF r.err = Nil THEN MapDelete(element, typ.JsonListName) ELSE element,
     err |-> r.err]

\* the body of an object between its start and end tags: [out, element, err]
ObjectBody(typ, element) ==
    IF typ.IsSimple /\ typ.TextAttr # ""
    THEN IF typ.TextAttr \in DOMAIN element
         THEN TextBody(typ, element, processJsonChardata(element[typ.TextAttr]))
         ELSE [out |-> <<>>, element |-> element, err |-> Nil]
    ELSE IF typ.JsonListName # ""
    THEN IF MapGet(element, typ.JsonListName) = JNull
         THEN [out |-> <<>>, element |-> element, err |-> Err("no list element", typ.Name)]
         ELSE ListBody(typ, element,
                 processJson(element[typ.JsonListName], typ.JsonListElement))
    ELSE ProcessChildren(typ.JsonElementList, 1, element, <<>>)

\* json2soap.go 410-424: the object after its body was written as body
ObjectClosed(jtyp, typ, start, body) ==
    IF body.err # Nil THEN Fail(start \o body.out, body.err)
    ELSE IF HasExtraElements(DeleteExtras(body.element, typ.JsonExtra))
    THEN Fail(start \o body.out, Err("extra elements", typ.Name))
    ELSE Ok(start \o body.out \o <<EmitEnd(jtyp)>>)

\* json2soap.go 325-329: the object after its attributes were collected as a
ObjectOpened(jtyp, typ, a) ==
    IF a.err # Nil THEN Fail(<<>>, a.err)
    ELSE ObjectClosed(jtyp, typ, <<EmitStart(jtyp, a.attrs)>>, ObjectBody(typ, a.element))

\* json2soap.go 304-323: the object, translated against the type typ of jtyp
TypedObject(jtyp, typ, element) ==
    IF typ.IsSimple /\ typ.TextAttr = "" THEN Fail(<<>>, Err("is a simple type", typ.Name))
    ELSE ObjectOpened(jtyp, typ, CollectAttrs(typ.Attributes, 1, element, <<>>))

\* the object after its type was resolved as res
ResolvedObject(element, res) ==
    IF res.err # Nil THEN Fail(<<>>, res.err)
    ELSE IF res.jtyp.Type \notin TypeNames THEN Fail(<<>>, Panic("nil Type"))
    ELSE TypedObject(res.jtyp, ewsTypes[res.jtyp.Type], MapDelete(element, "__type"))

processJsonObject(element, edesc) == ResolvedObject(element, ResolveType(element, edesc))

\* json2soap.go 491-525

\* a scalar item elements[i], its text written as c
ItemText(elements, i, childDesc, out, c) ==
    IF c.err # Nil
    THEN Fail(Append(out, EmitStart(childDesc.SingleType, <<>>)), c.err)
    ELSE ProcessItems(elements, i + 1, childDesc,
            out \o <<EmitStart(childDesc.SingleType, <<>>)>> \o c.out
                \o <<EmitEnd(childDesc.SingleType)>>)

\* an object item elements[i], written as r
ItemObject(elements, i, childDesc, out, r) ==
    IF r.err # Nil THEN Fail(out \o r.out, r.err)
    ELSE ProcessItems(elements, i + 1, childDesc, out \o r.out)

ProcessItems(elements, i, childDesc, out) ==
    IF i > Len(elements) THEN Ok(out)
    ELSE IF elements[i] = JNull THEN ProcessItems(elements, i + 1, childDesc, out)
    ELSE IF IsCharData(childDesc)
    THEN IF childDesc.SingleType = Nil THEN Fail(out, Panic("nil SingleType"))
         ELSE ItemText(elements, i, childDesc, out, processJsonChardata(elements[i]))
    ELSE IF elements[i].k # "map" THEN Fail(out, Err("expected object", childDesc.JsonName))
    ELSE ItemObject(elements, i, childDesc, out,
            processJsonObject(elements[i].m, childDesc))

\* json2soap.go 459-460: the list is the content of a list type
IsWrappedList(edesc) ==
    /\ edesc.SingleType # Nil
    /\ \/ ewsTypes[edesc.SingleType.Type].JsonListName # ""
       \/ ewsTypes[edesc.SingleType.Type].IsList

\* json2soap.go 448-465: the descriptor of the items of a list type
ListChildDesc(edesc, jl) ==
    [NewEwsJsonElement("", edesc.JsonName, FALSE) EXCEPT
        !.SingleType = jl.SingleType, !.TypesNil = jl.TypesNil, !.Types = jl.Types]

\* the wrapper left open after its items
WrappedList_NoEnd(edesc, r) == r

\* json2soap.go 483-533: the end tag after the items were written as r
WrappedList(edesc, r) ==
    IF r.err # Nil THEN r ELSE Ok(Append(r.out, EmitEnd(edesc.SingleType)))

processJsonList(elements, edesc) ==
    IF IsWrappedList(edesc)
    THEN WrappedList(edesc,
            ProcessItems(elements, 1,
                ListChildDesc(edesc, ewsTypes[edesc.SingleType.Type].JsonListElement),
                <<EmitStart(edesc.SingleType, <<>>)>>))
    ELSE IF edesc.IsList THEN ProcessItems(elements, 1, edesc, <<>>)
    ELSE Fail(<<>>, Err("could not determine list type", edesc.JsonName))

\* childDesc rebound to edesc before its fields are assigned
ChildDescIsEdesc_Early(edesc) == TRUE

\* json2soap.go 448-470: whether childDesc is the caller's edesc, a descriptor
\* of the registry, and not the new EwsJsonElement of line 448: it is rebound
\* to edesc (467) only in the second branch
ChildDescIsEdesc(edesc) == ~IsWrappedList(edesc) /\ edesc.IsList

\* the registry reg after edesc, wherever reg holds it, was overwritten by desc
StoreDescriptor(reg, edesc, desc) ==
    [n \in DOMAIN reg |->
        [reg[n] EXCEPT
            !.JsonListElement = IF @ = edesc THEN desc ELSE @,
            !.JsonElementList = [i \in DOMAIN @ |-> IF @[i] = edesc THEN desc ELSE @[i]]]]

\* the registry after processJsonList(enc, elements, edesc): the first branch
\* assigns childDesc.SingleType and childDesc.Types (462-463), which reaches
\* the registry when childDesc is edesc
RegistryAfterList(edesc) ==
    IF IsWrappedList(edesc) /\ ChildDescIsEdesc(edesc)
    THEN StoreDescriptor(ewsTypes, edesc,
            [edesc EXCEPT
                !.SingleType = ewsTypes[edesc.SingleType.Type].JsonListElement.SingleType,
                !.TypesNil = ewsTypes[edesc.SingleType.Type].JsonListElement.TypesNil,
                !.Types = ewsTypes[edesc.SingleType.Type].JsonListElement.Types])
    ELSE ewsTypes

\* the registry after processJson(enc, element, edesc): an object's keys are
\* deleted from the decoded value (json2soap.go 301-414), a scalar is only
\* read
RegistryAfterJson(element, edesc) ==
    IF element.k = "list" THEN RegistryAfterList(edesc) ELSE ewsTypes

\* the message as json.Decoder fills JsonSoapMessage: Header and Body must be
\* objects or null; [ok, Header, Body] with JNull for the nil map
DecodeMessage(msg) ==
    [ok |-> msg.Header.k \in {"null", "map"} /\ msg.Body.k \in {"null", "map"},
     Header |-> msg.Header, Body |-> msg.Body]

\* the type hint stamped on the items of a response
ResponseHint_NoSuffix(op) == <<op.Response.JsonName>>

ResponseHint(op) == <<op.Response.JsonName \o "Message">>

\* json2soap.go 146-155: the items after stamping, [items, err]
RECURSIVE StampItems_SkipNonObjects(_, _, _)
StampItems_SkipNonObjects(items, i, hint) ==
    IF i > Len(items) THEN [items |-> items, err |-> Nil]
    ELSE IF items[i].k = "map"
    THEN StampItems_SkipNonObjects(
            [items EXCEPT ![i] = JMap(MapPut(items[i].m, "__type", JStr(hint)))], i + 1, hint)
    ELSE StampItems_SkipNonObjects(items, i + 1, hint)

RECURSIVE StampItems(_, _, _)
StampItems(items, i, hint) ==
    IF i > Len(items) THEN [items |-> items, err |-> Nil]
    ELSE IF items[i].k = "map"
    THEN StampItems([items EXCEPT ![i] = JMap(MapPut(items[i].m, "__type", JStr(hint)))],
                    i + 1, hint)
    ELSE [items |-> items, err |-> Err("item is not a JSON object", "")]

\* json2soap.go 113-156: the loop over the child names of the response type,
\* which Go visits in the order `order`; [body, err]
RECURSIVE StampBody(_, _, _, _)

\* the child order[i], an object childBody whose Items were stamped as r
ItemsStamped(order, i, body, hint, childBody, r) ==
    IF r.err # Nil THEN [body |-> body, err |-> r.err]
    ELSE StampBody(order, i + 1,
            MapPut(body, order[i], JMap(MapPut(childBody, "Items", JList(r.items)))),
            hint)

\* the child order[i], childBody being what the Body holds under its name
StampChild(order, i, body, hint, childBody) ==
    IF childBody = JNull THEN StampBody(order, i + 1, body, hint)
    ELSE IF childBody.k # "map" THEN StampBody(order, i + 1, body, hint)
    ELSE IF "Items" \notin DOMAIN childBody.m
    THEN [body |-> body, err |-> Err("cannot find Items", order[i])]
    ELSE IF childBody.m["Items"].k # "list"
    THEN [body |-> body, err |-> Err("cannot convert items to array", order[i])]
    ELSE ItemsStamped(order, i, body, hint, childBody.m,
            StampItems(childBody.m["Items"].l, 1, hint))

StampBody(order, i, body, hint) ==
    IF i > Len(order) THEN [body |-> body, err |-> Nil]
    ELSE StampChild(order, i, body, hint, MapGet(body, order[i]))

soapEnvelopeTag == <<"soap", "Envelope">>
soapBodyTag == <<"soap", "Body">>
soapXmlns == <<[Name |-> "xmlns:soap", Value |-> <<"NSSOAP">>],
               [Name |-> "xmlns:m", Value |-> <<"NSMSG">>],
               [Name |-> "xmlns:t", Value |-> <<"NSTYPE">>]>>

\* the result of JSON2SOAP: the tokens written, the error, and the Body as it
\* is when its translation starts (JNull when that point is not reached)
J2SResult(out, err, stamped) == [out |-> out, err |-> err, stamped |-> stamped]

\* the orders in which Go may range over the child table of a type
RECURSIVE Orders(_)
Orders(S) ==
    IF S = {} THEN {<<>>}
    ELSE UNION {{<<x>> \o o : o \in Orders(S \ {x})} : x \in S}

ChildOrders(op) ==
    IF op.Response.SingleType = Nil THEN {<<>>}
    ELSE Orders(DOMAIN ewsTypes[op.Response.SingleType.Type].TypeByElementName)

(***************************************************************************)
(* The registry as a process may load it.  Initialize ranges over the      *)
(* candidate map of a JSON element (ews_types.go 198-200) and Go fixes no  *)
(* order for that: every order is an outcome.  MapValuesSeq above is the   *)
(* one order InitialTypes was built with.                                  *)
(***************************************************************************)
\* the candidates of the JSON element jee, ranged over in the order keys
CandidatesIn(jee, keys) == [i \in DOMAIN keys |-> jee.Types[keys[i]]]

\* ews_types.go 194-202: every sequence of types the two loops may add
RECURSIVE ListCandidateOrders(_)
ListCandidateOrders(list) ==
    IF list = <<>> THEN {<<>>}
    ELSE {h \o t :
            h \in (IF Head(list).SingleType # Nil THEN {<<Head(list).SingleType>>}
                   ELSE {CandidatesIn(Head(list), o) : o \in Orders(DOMAIN Head(list).Types)}),
            t \in ListCandidateOrders(Tail(list))}

\* ews_types.go 186-206: the list elements Initialize may leave in v
ListElements(v, list) ==
    IF (v.JsonListName # "" \/ v.IsList) /\ v.Name # "ArrayOfResponseMessagesType"
    THEN {AddAll(NewEwsJsonElement(v.Name, v.JsonListName, TRUE), c) :
            c \in ListCandidateOrders(list)}
    ELSE {ListElement(v, list)}

\* the values Initialize may leave in the type named n
Initializations(n) ==
    {[InitialTypes[n] EXCEPT !.JsonListElement = je] :
        je \in ListElements(RawType(n), InitialTypes[n].JsonElementList)}

\* the types whose derived tables depend on the order
Unsettled == {n \in TypeNames : Cardinality(Initializations(n)) > 1}

\* the values the global ewsTypes may hold once the package is loaded
LoadedRegistries ==
    {[n \in TypeNames |-> IF n \in Unsettled THEN c[n] ELSE InitialTypes[n]] :
        c \in {f \in [Unsettled -> UNION {Initializations(n) : n \in Unsettled}] :
                 \A n \in Unsettled : f[n] \in Initializations(n)}}

\* json2soap.go 68-85: the tokens written before the Header
EnvelopeOpen ==
    <<[k |-> "decl"], [k |-> "start", tag |-> soapEnvelopeTag, attrs |-> soapXmlns]>>

\* json2soap.go 162-176: the end of the message, its Body written as b
BodyWritten(bodyOpen, body, b) ==
    IF b.err # Nil THEN J2SResult(bodyOpen \o b.out, b.err, JMap(body))
    ELSE J2SResult(bodyOpen \o b.out \o <<[k |-> "end", tag |-> soapBodyTag],
                                          [k |-> "end", tag |-> soapEnvelopeTag]>>,
                   Nil, JMap(body))

\* json2soap.go 113-164: the Body after its items were stamped as st
BodyStamped(op, bodyOpen, st) ==
    IF st.err # Nil THEN J2SResult(bodyOpen, st.err, JNull)
    ELSE BodyWritten(bodyOpen, st.body, processJson(JMap(st.body), op.Response))

\* json2soap.go 96-156: the Body, bodyOpen being the tokens written so far
BodyOpened(body, op, order, bodyOpen) ==
    IF op.Response.SingleType = Nil THEN J2SResult(bodyOpen, Panic("nil SingleType"), JNull)
    ELSE BodyStamped(op, bodyOpen, StampBody(order, 1, body.m, ResponseHint(op)))

\* json2soap.go 87-98: the message after its Header was written as h
HeaderWritten(m, op, order, h) ==
    IF h.err # Nil THEN J2SResult(EnvelopeOpen \o h.out, h.err, JNull)
    ELSE IF m.Body = JNull
    THEN J2SResult(Append(EnvelopeOpen \o h.out, [k |-> "end", tag |-> soapEnvelopeTag]),
                   Nil, JNull)
    ELSE BodyOpened(m.Body, op, order,
            Append(EnvelopeOpen \o h.out, [k |-> "start", tag |-> soapBodyTag, attrs |-> <<>>]))

\* json2soap.go 56-92: the message m the decoder gave
MessageDecoded(m, op, order) ==
    IF ~m.ok THEN J2SResult(<<>>, Err("decode", ""), JNull)
    ELSE HeaderWritten(m, op, order,
            IF m.Header # JNull THEN processJson(m.Header, EwsSoapResponseHeader)
            ELSE Ok(<<>>))

\* JSON2SOAP(r, op, w, indent) on the message msg read from r
JSON2SOAP(msg, op, order) == MessageDecoded(DecodeMessage(msg), op, order)

(***************************************************************************)
(* XML documents offered to the translator.  A document is a tree; the     *)
(* decoder reads it as the token sequence Tokens(tree).                    *)
(***************************************************************************)
XText(t) == [k |-> "text", t |-> t]
XComment == [k |-> "comment"]
XElem(name, attr, kids) == [k |-> "elem", name |-> name, attr |-> attr, kids |-> kids]
XAttr(local, value) == [Space |-> "", Local |-> local, Value |-> value]
XmlnsAttr(prefix) == [Space |-> "xmlns", Local |-> prefix, Value |-> <<"urn:ns">>]

StartOf(node) == [k |-> "start", name |-> node.name, attr |-> node.attr]

RECURSIVE Tokens(_)
RECURSIVE KidTokens(_)
Tokens(node) ==
    CASE node.k = "elem" ->
            <<StartOf(node)>> \o KidTokens(node.kids) \o <<[k |-> "end", name |-> node.name]>>
      [] node.k = "text" -> <<[k |-> "chardata", t |-> node.t]>>
      [] OTHER -> <<[k |-> "comment"]>>
KidTokens(kids) ==
    IF kids = <<>> THEN <<>> ELSE Tokens(Head(kids)) \o KidTokens(Tail(kids))

\* the sequences of at most n members of S
SeqsUpTo(S, n) == UNION {[1..m -> S] : m \in 0..n}

Leaf(name, text) == XElem(name, <<>>, <<XText(text)>>)

\* children offered under an element of FolderResponseShapeType
ShapeKids ==
    {Leaf("BaseShape", <<"IdOnly">>), Leaf("Mode", <<"B">>), Leaf("Mode", <<"Zed">>),
     Leaf("Flags", <<"A", " ", "B">>), Leaf("Tag", <<"x">>),
     Leaf("IncludeMime", <<"true">>), Leaf("Depth", <<"2">>),
     XElem("BaseShape", <<>>, <<>>), Leaf("Bogus", <<"x">>),
     XText(<<"\n", " ">>), XText(<<"stray">>), XComment}

ShapeAttrs == {<<>>, <<XAttr("Lang", <<"en">>)>>, <<XmlnsAttr("t")>>, <<XAttr("Bogus", <<"x">>)>>}

ShapeElems == {XElem("FolderShape", a, ks) : a \in ShapeAttrs, ks \in SeqsUpTo(ShapeKids, MaxKids)}

\* children offered under ArrayOfFolderIds and under DistinguishedFolderIdType
MailboxElems ==
    {XElem("Mailbox", <<>>, <<>>),
     XElem("Mailbox", <<>>, <<XText(<<" ", "a@b", " ">>)>>),
     XElem("Mailbox", <<XAttr("Kind", <<"SMTP">>)>>, <<>>),
     XElem("Mailbox", <<XAttr("Kind", <<"SMTP">>)>>, <<XText(<<"a@b">>)>>)}

IdKids ==
    {XElem("FolderId", <<XAttr("Id", <<"f1">>), XAttr("ChangeKey", <<"7">>)>>, <<>>),
     XElem("FolderId", <<>>, <<>>),
     XElem("DistinguishedFolderId", <<XAttr("Id", <<"inbox">>)>>, <<>>)}
    \cup {XElem("DistinguishedFolderId", <<>>, <<m>>) : m \in MailboxElems}

IdListAttrs == {<<>>, <<XmlnsAttr("t")>>, <<XAttr("Id", <<"x">>)>>}

IdListElems(name) ==
    {XElem(name, a, ks) : a \in IdListAttrs, ks \in SeqsUpTo(IdKids, MaxKids)}

\* elements offered for ResolveNamesType
ResolveAttrs ==
    {<<>>, <<XmlnsAttr("m")>>, <<XAttr("ReturnFullContactData", <<"1">>)>>,
     <<XAttr("ContactDataShape", <<"AllProperties">>)>>}

ResolveKids ==
    {Leaf("UnresolvedEntry", <<"bob">>), XElem("UnresolvedEntry", <<>>, <<>>),
     XElem("ParentFolderIds", <<>>,
           <<XElem("FolderId", <<XAttr("Id", <<"f1">>)>>, <<>>)>>)}

ResolveElems ==
    {XElem("ResolveNames", a, ks) : a \in ResolveAttrs, ks \in SeqsUpTo(ResolveKids, MaxKids)}

\* elements offered for a type with a list key
MessageKids ==
    {XElem("GetFolderResponseMessage", <<XAttr("ResponseClass", <<"Success">>)>>, <<>>),
     XElem("ResolveNamesResponseMessage", <<>>, <<Leaf("ResponseCode", <<"NoError">>)>>)}

MessagesElems ==
    {XElem("ResponseMessages", a, ks) :
        a \in {<<>>, <<XmlnsAttr("m")>>}, ks \in SeqsUpTo(MessageKids, MaxKids)}

\* elements offered for the simple types
SimpleElems ==
    {XElem("Value", a, ks) :
        a \in {<<>>, <<XAttr("Bogus", <<"x">>)>>},
        ks \in {<<>>, <<XText(<<"true">>)>>, <<XText(<<"A">>)>>, <<XText(<<"A", " ", "C">>)>>,
                <<XText(<<" ", "12", "\n">>)>>, <<XText(<<"a">>), XComment, XText(<<"b">>)>>}}

\* elements offered for a type whose children share JSON keys with its
\* attribute and with its type hint
NamedKids == {Leaf("Label", <<"l">>), Leaf("Hint", <<"h">>), Leaf("Note", <<"o">>)}

NamedElems ==
    {XElem("NamedId", a, ks) :
        a \in {<<>>, <<XAttr("Name", <<"n">>)>>}, ks \in SeqsUpTo(NamedKids, MaxKids)}

\* the (element, type) pairs processElement is applied to on its own
ElemInputs ==
    {[node |-> e, typ |-> "FolderResponseShapeType"] : e \in ShapeElems}
    \cup {[node |-> e, typ |-> "ArrayOfFolderIds"] : e \in IdListElems("FolderIds")}
    \cup {[node |-> e, typ |-> "ResolveNamesType"] : e \in ResolveElems}
    \cup {[node |-> e, typ |-> "ArrayOfResponseMessagesType"] : e \in MessagesElems}
    \cup {[node |-> e, typ |-> "EmailType"] : e \in MailboxElems}
    \cup {[node |-> e, typ |-> "NamedIdType"] : e \in NamedElems}
    \cup {[node |-> e, typ |-> t] :
            e \in SimpleElems, t \in {"xs:string", "xs:boolean", "xs:int", "FlagEnum", "FlagList"}}

\* request bodies: the operation element and what may surround it
GetFolderElems ==
    {XElem("GetFolder", <<>>, ks) :
        ks \in SeqsUpTo({XElem("FolderShape", <<>>, <<Leaf("BaseShape", <<"IdOnly">>)>>),
                         XElem("FolderShape", <<>>, <<>>),
                         XElem("FolderIds", <<>>,
                               <<XElem("DistinguishedFolderId", <<XAttr("Id", <<"inbox">>)>>, <<>>)>>)},
                        MaxKids)}

\* operation elements with a child, or a grandchild, their types do not declare
StrangerElems ==
    {XElem("GetFolder", <<>>, <<Leaf("Bogus", <<"x">>)>>),
     XElem("GetFolder", <<>>, <<XElem("FolderShape", <<>>, <<Leaf("Bogus", <<"x">>)>>)>>)}

OpElems == GetFolderElems \cup ResolveElems \cup StrangerElems \cup {XElem("Bogus", <<>>, <<>>)}

BodyElems ==
    {XElem("Body", <<>>, <<o>>) : o \in OpElems}
    \cup {XElem("Body", <<>>, <<>>),
          XElem("Body", <<>>, <<XText(<<"\n">>), XElem("GetFolder", <<>>, <<>>), XText(<<"\n">>)>>),
          XElem("Body", <<>>, <<XElem("GetFolder", <<>>, <<>>), XElem("GetFolder", <<>>, <<>>)>>)}

GetFolderBodies == {XElem("Body", <<>>, <<o>>) : o \in GetFolderElems}

VersionElem(ver) == XElem("RequestServerVersion", <<XAttr("Version", ver)>>, <<>>)

HeaderElems ==
    {XElem("Header", <<>>, <<>>),
     XElem("Header", <<XmlnsAttr("t")>>, <<>>),
     XElem("Header", <<>>, <<VersionElem(<<"Exchange2010", "_SP2">>)>>),
     XElem("Header", <<>>, <<VersionElem(<<"Exchange2007">>)>>),
     XElem("Header", <<>>, <<VersionElem(<<"Exchange2016">>)>>),
     XElem("Header", <<>>, <<Leaf("MailboxCulture", <<"en-US">>),
                             VersionElem(<<"Exchange2013", "_SP1">>)>>)}

\* the documents a client may post
XmlDocs ==
    {XElem("Envelope", <<XmlnsAttr("soap")>>, <<b>>) : b \in BodyElems}
    \cup {XElem("Envelope", <<XmlnsAttr("soap")>>, <<h, b>>) : h \in HeaderElems, b \in BodyElems}
    \cup {XElem("Envelope", <<XmlnsAttr("soap")>>, <<b, h>>) : h \in HeaderElems, b \in GetFolderBodies}
    \cup {XElem("Envelope", <<>>, <<h>>) : h \in HeaderElems}
    \cup {XElem("Envelope", <<>>, <<h, h, b>>) :
            h \in {XElem("Header", <<>>, <<>>)}, b \in GetFolderBodies}
    \cup {XElem("Envelop", <<>>, <<>>)}

(***************************************************************************)
(* JSON values offered to the translator, as the decoder (UseNumber)       *)
(* yields them.                                                            *)
(***************************************************************************)
\* the maps with keys among the domain of opts, key x holding opts[x]
MapsOver(opts) == {[x \in ks |-> opts[x]] : ks \in SUBSET (DOMAIN opts)}

Absent == [k |-> "absent"]

JText(word) == JStr(<<word>>)

\* scalars and other values offered where an integer is expected
NumberValues ==
    {JNum(<<Itoa(n)>>) : n \in 0..MaxNum}
    \cup {JNum(<<"-1">>), JNum(<<"1.5">>), JText("6"), JText("+3"), JText("B"),
          JStr(<<"A", " ", "B">>), JStr(<<>>), JBool(TRUE), JNull,
          JMap(EmptyMap), JList(<<>>)}

\* objects offered for FolderResponseShapeType: every choice of keys
ShapeObjects ==
    MapsOver([__type |-> JStr(Exch("FolderResponseShape")), Lang |-> JText("en"),
              BaseShape |-> JText("IdOnly"), Tags |-> JList(<<JText("x"), JNull, JText("y")>>),
              IncludeMime |-> JBool(TRUE), Extra |-> JNum(<<"1">>),
              Bogus |-> JNum(<<"1">>), Junk |-> JNull])
    \cup {("Mode" :> v) : v \in NumberValues}
    \cup {("Flags" :> v) : v \in NumberValues}
    \cup {("Lang" :> JText("en")) @@ ("Flags" :> v) @@ ("Mode" :> JNum(<<"1">>)) :
            v \in NumberValues}

\* objects offered for the text-attr type and for the list types
EmailObjects ==
    MapsOver([__type |-> JStr(Exch("EmailAddress")), RoutingType |-> JText("SMTP"),
              Value |-> JText("a@b"), Bogus |-> JNull])
    \cup {("Value" :> JMap(EmptyMap))}

FolderObjects ==
    MapsOver([__type |-> JStr(Exch("Folder")), DisplayName |-> JText("Inbox"),
              Mode |-> JNum(<<"2">>), Flags |-> JNum(<<"6">>), Bogus |-> JText("x")])

MessageObjects ==
    {EmptyMap,
     ("ResponseClass" :> JText("Success")) @@ ("ResponseCode" :> JText("NoError")),
     ("__type" :> JStr(Exch("Stale"))) @@ ("ResponseCode" :> JText("NoError")),
     ("ResponseCode" :> JText("NoError")) @@ ("Bogus" :> JNum(<<"1">>)),
     ("Folders" :> JList(<<JMap(("__type" :> JStr(Exch("Folder")))
                                @@ ("DisplayName" :> JText("Inbox")))>>))}

ItemValues == {JMap(m) : m \in MessageObjects} \cup {JText("oops"), JNull}

MessagesValues ==
    {JMap(("Items" :> JList(items))) : items \in SeqsUpTo(ItemValues, MaxItems)}
    \cup {JMap(EmptyMap), JMap(("Items" :> JNull)), JMap(("Items" :> JText("x"))),
          JMap(("Items" :> JList(<<>>)) @@ ("Bogus" :> JNull)),
          JText("x"), JList(<<>>), JNull}

\* objects offered where the description has several types: every choice of
\* hint and of the key the XML-choice hook reads
HintValues ==
    {Absent, JStr(Exch("FolderId")), JStr(Exch("FolderIdType")),
     JStr(Exch("DistinguishedFolderId")), JStr(Exch("SyncFolderHierarchyDelete")),
     JStr(Exch("Stale")), JNum(<<"1">>), JNull}

ChangeTypeValues == {Absent, JText("Create"), JText("Delete"), JText("Rename"), JNum(<<"1">>)}

ChoiceObjects ==
    {(IF h = Absent THEN EmptyMap ELSE ("__type" :> h))
     @@ (IF c = Absent THEN EmptyMap ELSE ("ChangeType" :> c))
     @@ (IF withId THEN ("Id" :> JText("f1")) ELSE EmptyMap) :
        h \in HintValues, c \in ChangeTypeValues, withId \in BOOLEAN}

\* the descriptions with several types: the items of a list of folder ids
\* (told apart by __type) and the changes of a folder hierarchy (told apart by
\* the XML-choice hook)
ChoiceDescriptions ==
    {InitialTypes["ArrayOfFolderIds"].JsonListElement,
     InitialTypes["SyncFolderHierarchyChangesType"].JsonElementList[1],
     SingleElement("FolderId", "t", "FolderId", "FolderIdType")}

\* arrays offered to processJsonList: items told apart by their tag or text,
\* with null items and items of the wrong kind among them
IdItems ==
    {JMap(("__type" :> JStr(Exch("FolderId"))) @@ ("Id" :> JText("f1"))),
     JMap(("__type" :> JStr(Exch("DistinguishedFolderId"))) @@ ("Id" :> JText("inbox"))),
     JNull, JText("oops")}

TagItems == {JText("x"), JText("y"), JNull, JMap(EmptyMap)}

\* the descriptions an array is met under: a list type behind a single type,
\* a description that is itself a list, and descriptions that are neither
ListInputs ==
    {[element |-> JList(items),
      edesc |-> SingleElement("FolderIds", "m", "FolderIds", "ArrayOfFolderIds")] :
        items \in SeqsUpTo(IdItems, MaxItems)}
    \cup {[element |-> JList(items), edesc |-> e] :
            items \in SeqsUpTo(TagItems, MaxItems),
            e \in {InitialTypes["FolderResponseShapeType"].JsonElementList[j] :
                        j \in {n \in DOMAIN InitialTypes["FolderResponseShapeType"].JsonElementList :
                                 InitialTypes["FolderResponseShapeType"].JsonElementList[n].JsonName = "Tags"}}}
    \cup {[element |-> JList(items),
           edesc |-> InitialTypes["GetFolderType"].JsonElementList[j]] :
            items \in SeqsUpTo(IdItems, 1),
            j \in DOMAIN InitialTypes["GetFolderType"].JsonElementList}
    \cup {[element |-> JList(items), edesc |-> e] :
            items \in SeqsUpTo(IdItems, 1),
            e \in {SingleElement("FolderId", "t", "FolderId", "FolderIdType"),
                   SingleElement("FolderShape", "m", "FolderShape", "FolderResponseShapeType"),
                   InitialTypes["ArrayOfFolderIds"].JsonListElement}}

\* the (value, description) pairs processJson is applied to on its own
JsonInputs ==
    ListInputs \cup
    {[element |-> JMap(m), edesc |-> SingleElement("FolderShape", "m", "FolderShape", "FolderResponseShapeType")] :
        m \in ShapeObjects}
    \cup {[element |-> JMap(m), edesc |-> SingleElement("Mailbox", "t", "Mailbox", "EmailType")] :
            m \in EmailObjects}
    \cup {[element |-> JMap(m), edesc |-> SingleElement("Folder", "t", "Folder", "FolderType")] :
            m \in FolderObjects}
    \cup {[element |-> v, edesc |-> SingleElement("Mode", "t", "Mode", "FlagEnum")] : v \in NumberValues}
    \cup {[element |-> v, edesc |-> SingleElement("Depth", "t", "Depth", "xs:int")] : v \in NumberValues}
    \cup {[element |-> v, edesc |-> SingleElement("ResponseMessages", "m", "ResponseMessages",
                                        "ArrayOfResponseMessagesType")] : v \in MessagesValues}
    \cup {[element |-> JList(<<JMap(m)>>),
           edesc |-> SingleElement("Folders", "m", "Folders", "ArrayOfFolders")] : m \in FolderObjects}
    \cup {[element |-> JMap(m), edesc |-> e] : m \in ChoiceObjects, e \in ChoiceDescriptions}

\* the messages the upstream may answer with
HeaderValues ==
    {JNull, JMap(EmptyMap),
     JMap(("ServerVersionInfo" :> JMap(("MajorVersion" :> JNum(<<"15">>))))),
     JMap(("Bogus" :> JNull)), JList(<<>>)}

SummaryValues == {Absent, JText("ok"), JMap(EmptyMap), JMap(("Items" :> JList(<<JMap(EmptyMap)>>)))}

BodyOf(messages, summary) ==
    JMap((IF messages = Absent THEN EmptyMap ELSE ("ResponseMessages" :> messages))
         @@ (IF summary = Absent THEN EmptyMap ELSE ("Summary" :> summary)))

BodyValues ==
    {BodyOf(rm, sm) : rm \in MessagesValues \cup {Absent}, sm \in SummaryValues}
    \cup {JNull, JText("x")}

JsonMessages ==
    {[Header |-> JNull, Body |-> b] : b \in BodyValues}
    \cup {[Header |-> h, Body |-> b] :
            h \in HeaderValues,
            b \in {JNull, JMap(("ResponseMessages" :> JMap(("Items" :> JList(<<JMap(EmptyMap)>>)))))}}

(***************************************************************************)
(* The proxy's translation of one exchange: a client posts a SOAP          *)
(* document, SOAP2JSON translates it; when that succeeded the upstream     *)
(* answers with a JSON message, which JSON2SOAP translates for the         *)
(* operation SOAP2JSON returned.                                           *)
(***************************************************************************)
Init ==
    /\ pc = "idle"
    /\ ewsTypes = InitialTypes
    /\ ProxyUnused
    /\ xmlIn = Nil
    /\ s2jOut = Nil
    /\ jsonIn = Nil
    /\ j2sOut = Nil
    /\ elemIn = Nil
    /\ elemOut = Nil
    /\ jvalIn = Nil
    /\ jvalOut = Nil

ClientRequest ==
    /\ pc = "idle"
    /\ \E doc \in XmlDocs : xmlIn' = Tokens(doc)
    /\ pc' = "request"
    /\ UNCHANGED <<ewsTypes, s2jOut, jsonIn, j2sOut, elemIn, elemOut, jvalIn, jvalOut>>
    /\ UNCHANGED proxyVars

TranslateRequest ==
    /\ pc = "request"
    /\ s2jOut' = SOAP2JSON(xmlIn)
    /\ pc' = "translated"
    /\ UNCHANGED <<ewsTypes, xmlIn, jsonIn, j2sOut, elemIn, elemOut, jvalIn, jvalOut>>
    /\ UNCHANGED proxyVars

UpstreamResponse ==
    /\ pc = "translated"
    /\ s2jOut.err = Nil
    /\ \E msg \in JsonMessages : jsonIn' = [msg |-> msg, op |-> s2jOut.op]
    /\ pc' = "response"
    /\ xmlIn' = Nil
    /\ s2jOut' = Nil
    /\ UNCHANGED <<ewsTypes, j2sOut, elemIn, elemOut, jvalIn, jvalOut>>
    /\ UNCHANGED proxyVars

TranslateResponse ==
    /\ pc = "response"
    /\ \E order \in ChildOrders(EwsOperations[jsonIn.op]) :
          j2sOut' = JSON2SOAP(jsonIn.msg, EwsOperations[jsonIn.op], order)
    /\ pc' = "replied"
    /\ UNCHANGED <<ewsTypes, xmlIn, s2jOut, jsonIn, elemIn, elemOut, jvalIn, jvalOut>>
    /\ UNCHANGED proxyVars

Finish ==
    /\ pc \in {"translated", "replied"}
    /\ pc' = "idle"
    /\ xmlIn' = Nil
    /\ s2jOut' = Nil
    /\ jsonIn' = Nil
    /\ j2sOut' = Nil
    /\ UNCHANGED <<ewsTypes, elemIn, elemOut, jvalIn, jvalOut>>
    /\ UNCHANGED proxyVars

Next ==
    \/ ClientRequest
    \/ TranslateRequest
    \/ UpstreamResponse
    \/ TranslateResponse
    \/ Finish

Spec == Init /\ [][Next]_vars

(***************************************************************************)
(* processElement on its own: one element of one registered type.          *)
(***************************************************************************)
InitElem ==
    /\ pc = "element"
    /\ ewsTypes = InitialTypes
    /\ ProxyUnused
    /\ \E i \in ElemInputs :
          elemIn = [el |-> StartOf(i.node),
                    d |-> KidTokens(i.node.kids) \o <<[k |-> "end", name |-> i.node.name]>>,
                    typ |-> i.typ]
    /\ elemOut = Nil
    /\ xmlIn = Nil
    /\ s2jOut = Nil
    /\ jsonIn = Nil
    /\ j2sOut = Nil
    /\ jvalIn = Nil
    /\ jvalOut = Nil

ApplyProcessElement ==
    /\ pc = "element"
    /\ elemOut' = processElement(elemIn.d, 1, elemIn.el, elemIn.typ)
    /\ pc' = "elementDone"
    /\ UNCHANGED <<ewsTypes, xmlIn, s2jOut, jsonIn, j2sOut, elemIn, jvalIn, jvalOut>>
    /\ UNCHANGED proxyVars

NextElem == ApplyProcessElement

SpecElem == InitElem /\ [][NextElem]_vars

(***************************************************************************)
(* processJson on its own: one JSON value against one element description. *)
(***************************************************************************)
InitJson ==
    /\ pc = "value"
    /\ ewsTypes = InitialTypes
    /\ ProxyUnused
    /\ jvalIn \in JsonInputs
    /\ jvalOut = Nil
    /\ xmlIn = Nil
    /\ s2jOut = Nil
    /\ jsonIn = Nil
    /\ j2sOut = Nil
    /\ elemIn = Nil
    /\ elemOut = Nil

ApplyProcessJson ==
    /\ pc = "value"
    /\ jvalOut' = processJson(jvalIn.element, jvalIn.edesc)
    /\ ewsTypes' = RegistryAfterJson(jvalIn.element, jvalIn.edesc)
    /\ pc' = "valueDone"
    /\ UNCHANGED <<xmlIn, s2jOut, jsonIn, j2sOut, elemIn, elemOut, jvalIn>>
    /\ UNCHANGED proxyVars

NextJson == ApplyProcessJson

SpecJson == InitJson /\ [][NextJson]_vars

(***************************************************************************)
(* The same value translated by two processes: each loads the registry,    *)
(* in whatever order its maps are ranged over, and applies processJson.    *)
(***************************************************************************)
\* item ids as the upstream names them: by either key of ItemIdType, by the
\* type's own name, or not at all
ItemIdItems ==
    {JMap(("__type" :> JStr(Exch("ItemId"))) @@ ("Id" :> JText("i1"))),
     JMap(("__type" :> JStr(Exch("ItemIdType"))) @@ ("Id" :> JText("i2"))),
     JMap(("__type" :> JStr(Exch("OccurrenceItemId"))) @@ ("Id" :> JText("i3"))),
     JMap(("Id" :> JText("i4"))),
     JNull}

RerunInputs ==
    {[element |-> JList(items),
      edesc |-> SingleElement("ItemIds", "m", "ItemIds", "ArrayOfItemIds")] :
        items \in SeqsUpTo(ItemIdItems, MaxItems)}
    \cup {[element |-> JList(items),
           edesc |-> SingleElement("FolderIds", "m", "FolderIds", "ArrayOfFolderIds")] :
            items \in SeqsUpTo(IdItems, 1)}

InitRerun ==
    /\ pc = "value"
    /\ ewsTypes \in LoadedRegistries
    /\ ProxyUnused
    /\ jvalIn \in RerunInputs
    /\ jvalOut = Nil
    /\ xmlIn = Nil
    /\ s2jOut = Nil
    /\ jsonIn = Nil
    /\ j2sOut = Nil
    /\ elemIn = Nil
    /\ elemOut = Nil

\* the proxy is started again: the registry is built anew
Restart ==
    /\ pc = "valueDone"
    /\ ewsTypes' \in LoadedRegistries
    /\ pc' = "restarted"
    /\ UNCHANGED <<xmlIn, s2jOut, jsonIn, j2sOut, elemIn, elemOut, jvalIn, jvalOut>>
    /\ UNCHANGED proxyVars

\* the second process translates the same value
TranslateAgain ==
    /\ pc = "restarted"
    /\ jvalOut' = processJson(jvalIn.element, jvalIn.edesc)
    /\ pc' = "again"
    /\ UNCHANGED <<ewsTypes, xmlIn, s2jOut, jsonIn, j2sOut, elemIn, elemOut, jvalIn>>
    /\ UNCHANGED proxyVars

NextRerun == ApplyProcessJson \/ Restart \/ TranslateAgain

SpecRerun == InitRerun /\ [][NextRerun]_vars

(***************************************************************************)
(* Initialize on its own: one raw type of the generated table, some of     *)
(* whose descriptors name a type the table does not hold.                  *)
(***************************************************************************)
ProbeAttributes ==
    {<<>>, <<At("Id", "xs:string")>>, <<At("Id", "MissingType")>>,
     <<At("Id", "xs:string"), [At("Key", "MissingType") EXCEPT !.JN = "ChangeKey"]>>}

ProbeElements ==
    {El("t", "A", "xs:string"),
     El("t", "B", "MissingType"),
     [El("t", "C", "MissingType") EXCEPT !.JN = "A"],
     [El("t", "D", "MissingType") EXCEPT !.JT = Exch("D")],
     El("t", "E", "EmailType")}

ProbeTypes ==
    {[ZeroType("ProbeType") EXCEPT
        !.JsonType = Exch("Probe"), !.Attributes = a, !.elements = e,
        !.IsList = l, !.ListItemTypeStr = li] :
        a \in ProbeAttributes, e \in SeqsUpTo(ProbeElements, MaxKids),
        l \in BOOLEAN, li \in {"", "xs:string", "MissingType"}}

InitInit ==
    /\ pc = "init"
    /\ ewsTypes = InitialTypes
    /\ TranslatorIdle
    /\ ObjectUnused
    /\ MiddlewareUnused
    /\ ChainUnused
    /\ LoginUnused
    /\ initIn \in ProbeTypes
    /\ initOut = Nil

\* the generated table's init(): v.Initialize() for the type v
RunInitialize ==
    /\ pc = "init"
    /\ initOut' = InitializeOrPanic(initIn)
    /\ pc' = "initDone"
    /\ UNCHANGED <<ewsTypes, xmlIn, s2jOut, jsonIn, j2sOut, elemIn, elemOut, jvalIn, jvalOut>>
    /\ UNCHANGED <<initIn, objVars, mwVars, chainVars, loginVars>>

NextInit == RunInitialize

SpecInit == InitInit /\ [][NextInit]_vars

(***************************************************************************)
(* OrderedObject on its own: Set calls on a new object.                    *)
(***************************************************************************)
SetKeys == {"__type", "Id", "Name"}

SetValues == {JText("x"), JText("y")}

InitObject ==
    /\ pc = "object"
    /\ ewsTypes = InitialTypes
    /\ TranslatorIdle
    /\ InitializerUnused
    /\ MiddlewareUnused
    /\ ChainUnused
    /\ LoginUnused
    /\ orderedObj = NewOrderedObject
    /\ setCalls = <<>>
    /\ setReturn = Nil

\* obj.Set(key, value)
CallSet ==
    /\ Len(setCalls) < MaxSets
    /\ \E key \in SetKeys, value \in SetValues :
          /\ orderedObj' = ObjSet(orderedObj, key, value).obj
          /\ setReturn' = ObjSet(orderedObj, key, value).added
          /\ setCalls' = Append(setCalls, [key |-> key, value |-> value])
    /\ UNCHANGED <<translatorVars, initVars, mwVars, chainVars, loginVars>>

NextObject == CallSet

SpecObject == InitObject /\ [][NextObject]_vars

(***************************************************************************)
(* TranslationMiddleware behind a chained proxy: one client request is     *)
(* passed to RequestModifier, forwarded to the upstream when that returned *)
(* nil, and the upstream's response is passed to ResponseModifier.         *)
(* An http.Header is a map from names to values; a body is what reading it *)
(* yields, or unreadable.                                                  *)
(***************************************************************************)
EwsPath == "/ews/exchange.asmx"

OwaServicePath == "/owa/service.svc"

ewsContextName == "ews_ctx"

EmptyHeader == [x \in {} |-> ""]

Unreadable == [k |-> "unreadable"]

\* proxyutils.CreateNewResponse(request, "")
CreateNewResponse == [StatusCode |-> 200, Header |-> EmptyHeader, Body |-> [k |-> "text", t |-> <<>>]]

\* the calls counted: the two translators, the transport and the callbacks
NoCalls ==
    [SOAP2JSON |-> 0, JSON2SOAP |-> 0, Transport |-> 0,
     OnEwsSuccess |-> 0, OnEwsTimeout |-> 0, OnEwsTranslationError |-> 0]

Called(c, what) == [c EXCEPT ![what] = @ + 1]

\* a modifier's return: the error (Nil, a RequestError carrying a response, or
\* another error), and the request, response, context and calls it leaves
RequestError(resp) == [kind |-> "RequestError", Response |-> resp]

\* the request rewritten without its canary header
SetupOwaRequest_NoCanary(req, json, action, canary) ==
    [req EXCEPT
        !.Body = [k |-> "json", json |-> json],
        !.Header = ("Content-Type" :> "application/json; charset=UTF-8")
                   @@ ("Action" :> action) @@ ("X-OWA-Canary" :> "")
                   @@ ("Content-Length" :> "len(json)") @@ @,
        !.Path = OwaServicePath]

\* part_000 248-262
SetupOwaRequest(req, json, action, canary) ==
    [req EXCEPT
        !.Body = [k |-> "json", json |-> json],
        !.Header = ("Content-Type" :> "application/json; charset=UTF-8")
                   @@ ("Action" :> action) @@ ("X-OWA-Canary" :> canary)
                   @@ ("Content-Length" :> "len(json)") @@ @,
        !.Path = OwaServicePath]

\* part_000 166-185: RequestModifier after SOAP2JSON returned r
AfterSOAP2JSON(req, canary, cx, c, r) ==
    IF r.err # Nil
    THEN [err |-> r.err, request |-> req, cctx |-> cx,
          calls |-> Called(c, "OnEwsTranslationError")]
    ELSE [err |-> Nil,
          request |-> SetupOwaRequest(req, r.ret, EwsOperations[r.op].Action, canary),
          cctx |-> (ewsContextName :> [EwsProxyOp |-> r.op]) @@ cx,
          calls |-> c]

\* part_000 113-188: TranslationMiddleware.RequestModifier
RequestModifier(req, canary, cx, c) ==
    IF req.Path # EwsPath THEN [err |-> Nil, request |-> req, cctx |-> cx, calls |-> c]
    ELSE IF req.Method = "GET"
    THEN [err |-> RequestError(CreateNewResponse), request |-> req, cctx |-> cx, calls |-> c]
    ELSE IF req.Method # "POST" THEN [err |-> Nil, request |-> req, cctx |-> cx, calls |-> c]
    ELSE IF canary = ""
    THEN [err |-> RequestError([CreateNewResponse EXCEPT !.StatusCode = 440]),
          request |-> req, cctx |-> cx, calls |-> c]
    ELSE IF req.Body = Unreadable
    THEN [err |-> Err("reading body", ""), request |-> req, cctx |-> cx, calls |-> c]
    ELSE AfterSOAP2JSON(req, canary, cx, Called(c, "SOAP2JSON"), SOAP2JSON(req.Body.doc))

\* part_000 219-242: ResponseModifier after JSON2SOAP returned r
AfterJSON2SOAP(resp, c, r) ==
    IF r.err # Nil
    THEN [err |-> Nil,
          response |-> [resp EXCEPT !.StatusCode = 500,
                                    !.Header = ("X-EwsProxyError" :> "err") @@ @],
          calls |-> Called(c, "OnEwsTranslationError")]
    ELSE [err |-> Nil,
          response |-> [resp EXCEPT !.Header = ("Content-Type" :> "text/xml; charset=utf-8") @@ @,
                                    !.Body = [k |-> "xml", out |-> r.out]],
          calls |-> IF resp.StatusCode = 200 THEN Called(c, "OnEwsSuccess") ELSE c]

\* the response modifier without a case for status 440
ResponseModifier_No440(resp, cx, c, order) ==
    IF ewsContextName \notin DOMAIN cx THEN [err |-> Nil, response |-> resp, calls |-> c]
    ELSE IF resp.StatusCode # 302 /\ resp.StatusCode # 504
    THEN IF resp.Body = Unreadable
         THEN [err |-> Err("reading body", ""), response |-> resp, calls |-> c]
         ELSE AfterJSON2SOAP(resp, Called(c, "JSON2SOAP"),
                 JSON2SOAP(resp.Body.msg, EwsOperations[cx[ewsContextName].EwsProxyOp], order))
    ELSE [err |-> Nil, response |-> resp, calls |-> c]

\* part_000 190-246: TranslationMiddleware.ResponseModifier, the child table
\* of the response type ranged over in order
ResponseModifier(resp, cx, c, order) ==
    IF ewsContextName \notin DOMAIN cx THEN [err |-> Nil, response |-> resp, calls |-> c]
    ELSE IF resp.StatusCode = 440
    THEN [err |-> Nil, response |-> resp, calls |-> Called(c, "OnEwsTimeout")]
    ELSE IF resp.StatusCode # 302 /\ resp.StatusCode # 504
    THEN IF resp.Body = Unreadable
         THEN [err |-> Err("reading body", ""), response |-> resp, calls |-> c]
         ELSE AfterJSON2SOAP(resp, Called(c, "JSON2SOAP"),
                 JSON2SOAP(resp.Body.msg, EwsOperations[cx[ewsContextName].EwsProxyOp], order))
    ELSE [err |-> Nil, response |-> resp, calls |-> c]

\* what the clients and the upstream send
ProxyDocs ==
    {XElem("Envelope", <<XmlnsAttr("soap")>>, <<XElem("Header", <<>>, <<>>), XElem("Body", <<>>, <<o>>)>>) :
        o \in {XElem("GetFolder", <<>>, <<>>), XElem("ResolveNames", <<>>, <<>>),
               XElem("Bogus", <<>>, <<>>)}}
    \cup {XElem("Envelop", <<>>, <<>>)}

ProxyRequests ==
    {[Path |-> p, Method |-> m, Header |-> ("Content-Type" :> "text/xml"), Body |-> b] :
        p \in {EwsPath, "/owa/"}, m \in {"GET", "POST", "PUT"},
        b \in {[k |-> "xml", doc |-> Tokens(d)] : d \in ProxyDocs} \cup {Unreadable}}

ProxyMessages ==
    {[Header |-> JNull, Body |-> JMap(("ResponseMessages" :> JMap(("Items" :> JList(<<JMap(EmptyMap)>>)))))],
     [Header |-> JNull, Body |-> JMap(("Bogus" :> JNull))]}

UpstreamResponses ==
    {[StatusCode |-> st, Header |-> ("Content-Type" :> "application/json"), Body |-> b] :
        st \in {200, 302, 440, 500, 504},
        b \in {[k |-> "json", msg |-> m] : m \in ProxyMessages} \cup {Unreadable}}

InitProxy ==
    /\ pc = "listening"
    /\ ewsTypes = InitialTypes
    /\ TranslatorIdle
    /\ InitializerUnused
    /\ ObjectUnused
    /\ ChainUnused
    /\ LoginUnused
    /\ OwaCanary \in {"", "canary1"}
    /\ request = Nil
    /\ cctx = Nil
    /\ response = Nil
    /\ calls = NoCalls
    /\ reply = Nil
    /\ forwarded = Nil

\* part_002 88-101: RoundTrip is called with a client's request
ClientSends ==
    /\ pc = "listening"
    /\ request' \in ProxyRequests
    /\ cctx' = EmptyMap
    /\ pc' = "request"
    /\ UNCHANGED <<OwaCanary, response, calls, reply, forwarded>>
    /\ UNCHANGED <<ewsTypes, xmlIn, s2jOut, jsonIn, j2sOut, elemIn, elemOut, jvalIn, jvalOut>>
    /\ UNCHANGED <<initVars, objVars, chainVars, loginVars>>

\* part_002 104-112 after the request modifier returned r
RequestModified(r) ==
    /\ request' = r.request
    /\ cctx' = r.cctx
    /\ calls' = r.calls
    /\ IF r.err = Nil
       THEN pc' = "forward" /\ reply' = reply
       ELSE /\ pc' = "replied"
            /\ reply' = IF r.err.kind = "RequestError"
                        THEN [response |-> r.err.Response, err |-> Nil]
                        ELSE [response |-> Nil, err |-> r.err]

RunRequestModifier ==
    /\ pc = "request"
    /\ RequestModified(RequestModifier(request, OwaCanary, cctx, calls))
    /\ UNCHANGED <<OwaCanary, response, forwarded>>
    /\ UNCHANGED <<ewsTypes, xmlIn, s2jOut, jsonIn, j2sOut, elemIn, elemOut, jvalIn, jvalOut>>
    /\ UNCHANGED <<initVars, objVars, chainVars, loginVars>>

\* part_002 117: the transport sends the request; the upstream answers
Forward ==
    /\ pc = "forward"
    /\ forwarded' = request
    /\ response' \in UpstreamResponses
    /\ calls' = Called(calls, "Transport")
    /\ pc' = "response"
    /\ UNCHANGED <<OwaCanary, request, cctx, reply>>
    /\ UNCHANGED <<ewsTypes, xmlIn, s2jOut, jsonIn, j2sOut, elemIn, elemOut, jvalIn, jvalOut>>
    /\ UNCHANGED <<initVars, objVars, chainVars, loginVars>>

\* part_002 138-145 after the response modifier returned r
ResponseModified(r) ==
    /\ response' = r.response
    /\ calls' = r.calls
    /\ reply' = IF r.err = Nil THEN [response |-> r.response, err |-> Nil]
                ELSE [response |-> Nil, err |-> r.err]

RunResponseModifier ==
    /\ pc = "response"
    /\ \E order \in (IF ewsContextName \in DOMAIN cctx
                      THEN ChildOrders(EwsOperations[cctx[ewsContextName].EwsProxyOp])
                      ELSE {<<>>}) :
          ResponseModified(ResponseModifier(response, cctx, calls, order))
    /\ pc' = "replied"
    /\ UNCHANGED <<OwaCanary, request, cctx, forwarded>>
    /\ UNCHANGED <<ewsTypes, xmlIn, s2jOut, jsonIn, j2sOut, elemIn, elemOut, jvalIn, jvalOut>>
    /\ UNCHANGED <<initVars, objVars, chainVars, loginVars>>

\* ews_login_middleware.go 101-152: meanwhile the login middleware stores or
\* clears the translator's canary
LoginWritesCanary ==
    /\ pc \in {"listening", "request", "forward", "response"}
    /\ OwaCanary' \in {"", "canary1", "canary2"} \ {OwaCanary}
    /\ UNCHANGED <<pc, request, cctx, response, calls, reply, forwarded>>
    /\ UNCHANGED <<ewsTypes, xmlIn, s2jOut, jsonIn, j2sOut, elemIn, elemOut, jvalIn, jvalOut>>
    /\ UNCHANGED <<initVars, objVars, chainVars, loginVars>>

NextProxy ==
    ClientSends \/ RunRequestModifier \/ Forward \/ RunResponseModifier \/ LoginWritesCanary

SpecProxy == InitProxy /\ [][NextProxy]_vars

(***************************************************************************)
(* The chained proxy: CreateChainedProxy and one RoundTrip, statement by   *)
(* statement.  A middleware is known by its position in the argument list; *)
(* what its modifiers return is not determined here.  Every call of a      *)
(* modifier or of the transport is appended to trace, with the context the *)
(* modifier was handed, and a modifier leaves its mark in the context.     *)
(***************************************************************************)
RetryLimit == 3

StatusGatewayTimeout == 504

\* part_002 77-82, with the response modifiers appended like the request
\* modifiers
CollectModifiers_Appended(proxy, middlewares, i) ==
    [RequestModifiers |-> middlewares, ResponseModifiers |-> middlewares]

\* part_002 77-82: the loop over the middlewares from the i-th on
RECURSIVE CollectModifiers(_, _, _)
CollectModifiers(proxy, middlewares, i) ==
    IF i > Len(middlewares) THEN proxy
    ELSE CollectModifiers(
            [RequestModifiers |-> Append(proxy.RequestModifiers, middlewares[i]),
             ResponseModifiers |-> <<middlewares[i]>> \o proxy.ResponseModifiers],
            middlewares, i + 1)

\* part_002 53-84
CreateChainedProxy(middlewares) ==
    CollectModifiers([RequestModifiers |-> <<>>, ResponseModifiers |-> <<>>], middlewares, 1)

\* what a modifier may return
ModifierReturns == {"nil", "RequestError", "error"}

\* the record of one call: what was called, with which context, what it returned
CallOf(kind, m, ctx, ret) == [call |-> kind, m |-> m, ctx |-> ctx, ret |-> ret]

\* part_002 129-135, going on to the response modifiers whatever the retries gave
AfterRetries_Continue(err, resp) == [returned |-> FALSE, response |-> resp]

\* part_002 129-135: the 504 of a round trip whose calls all failed
AfterRetries(err, resp) ==
    IF err # Nil
    THEN [returned |-> TRUE,
          response |-> [CreateNewResponse EXCEPT !.StatusCode = StatusGatewayTimeout]]
    ELSE [returned |-> FALSE, response |-> resp]

InitChain ==
    /\ pc = "request modifiers"
    /\ ewsTypes = InitialTypes
    /\ TranslatorIdle
    /\ InitializerUnused
    /\ ObjectUnused
    /\ MiddlewareUnused
    /\ LoginUnused
    /\ \E n \in 0..MaxMiddlewares : chain = CreateChainedProxy([i \in 1..n |-> i])
    /\ mwIndex = 1
    /\ chainCtx = {}
    /\ retryCount = 0
    /\ chainResponse = Nil
    /\ chainErr = Nil
    /\ chainReturn = Nil
    /\ trace = <<>>

\* part_002 104-112: one turn of the loop over the request modifiers
CallRequestModifier ==
    /\ pc = "request modifiers"
    /\ mwIndex <= Len(chain.RequestModifiers)
    /\ LET m == chain.RequestModifiers[mwIndex]
       IN  /\ chainCtx' = chainCtx \cup {m}
           /\ \E ret \in ModifierReturns :
                 /\ trace' = Append(trace, CallOf("request", m, chainCtx, ret))
                 /\ IF ret = "nil"
                    THEN /\ chainErr' = Nil
                         /\ mwIndex' = mwIndex + 1
                         /\ UNCHANGED <<pc, chainReturn>>
                    ELSE /\ chainErr' = Err(ret, m)
                         /\ chainReturn' = IF ret = "RequestError"
                                           THEN [response |-> [CreateNewResponse EXCEPT !.Body = [k |-> "from", m |-> m]],
                                                 err |-> Nil]
                                           ELSE [response |-> Nil, err |-> Err(ret, m)]
                         /\ pc' = "returned"
                         /\ UNCHANGED mwIndex
    /\ UNCHANGED <<chain, retryCount, chainResponse>>
    /\ UNCHANGED <<ewsTypes, xmlIn, s2jOut, jsonIn, j2sOut, elemIn, elemOut, jvalIn, jvalOut>>
    /\ UNCHANGED <<initVars, objVars, mwVars, loginVars>>

\* part_002 114-115: the loop is left and the retry counter set
StartRetries ==
    /\ pc = "request modifiers"
    /\ mwIndex > Len(chain.RequestModifiers)
    /\ retryCount' = RetryLimit
    /\ pc' = "transport"
    /\ UNCHANGED <<chain, mwIndex, chainCtx, chainResponse, chainErr, chainReturn, trace>>
    /\ UNCHANGED <<ewsTypes, xmlIn, s2jOut, jsonIn, j2sOut, elemIn, elemOut, jvalIn, jvalOut>>
    /\ UNCHANGED <<initVars, objVars, mwVars, loginVars>>

\* part_002 116-127: one turn of the retry loop
CallTransport ==
    /\ pc = "transport"
    /\ retryCount > 0
    /\ \E ok \in BOOLEAN :
          /\ trace' = Append(trace, CallOf("transport", 0, chainCtx, IF ok THEN "nil" ELSE "error"))
          /\ IF ok
             THEN /\ chainResponse' = CreateNewResponse
                  /\ chainErr' = Nil
                  /\ pc' = "after retries"
                  /\ UNCHANGED retryCount
             ELSE /\ chainResponse' = Nil
                  /\ chainErr' = Err("network", "")
                  /\ retryCount' = retryCount - 1
                  /\ pc' = IF retryCount - 1 > 0 THEN "transport" ELSE "after retries"
    /\ UNCHANGED <<chain, mwIndex, chainCtx, chainReturn>>
    /\ UNCHANGED <<ewsTypes, xmlIn, s2jOut, jsonIn, j2sOut, elemIn, elemOut, jvalIn, jvalOut>>
    /\ UNCHANGED <<initVars, objVars, mwVars, loginVars>>

\* part_002 129-137 with r the outcome of the retries
RetriesOver(r) ==
    /\ chainResponse' = r.response
    /\ IF r.returned
       THEN /\ chainReturn' = [response |-> r.response, err |-> Nil]
            /\ pc' = "returned"
            /\ UNCHANGED mwIndex
       ELSE /\ mwIndex' = 1
            /\ pc' = "response modifiers"
            /\ UNCHANGED chainReturn

LeaveRetries ==
    /\ pc = "after retries"
    /\ RetriesOver(AfterRetries(chainErr, chainResponse))
    /\ UNCHANGED <<chain, chainCtx, retryCount, chainErr, trace>>
    /\ UNCHANGED <<ewsTypes, xmlIn, s2jOut, jsonIn, j2sOut, elemIn, elemOut, jvalIn, jvalOut>>
    /\ UNCHANGED <<initVars, objVars, mwVars, loginVars>>

\* part_002 138-143: one turn of the loop over the response modifiers
CallResponseModifier ==
    /\ pc = "response modifiers"
    /\ mwIndex <= Len(chain.ResponseModifiers)
    /\ LET m == chain.ResponseModifiers[mwIndex]
       IN  /\ chainCtx' = chainCtx \cup {-m}
           /\ \E ret \in ModifierReturns :
                 /\ trace' = Append(trace, CallOf("response", m, chainCtx, ret))
                 /\ IF ret = "nil"
                    THEN /\ chainErr' = Nil
                         /\ mwIndex' = mwIndex + 1
                         /\ UNCHANGED <<pc, chainReturn>>
                    ELSE /\ chainErr' = Err(ret, m)
                         /\ chainReturn' = [response |-> Nil, err |-> Err(ret, m)]
                         /\ pc' = "returned"
                         /\ UNCHANGED mwIndex
    /\ UNCHANGED <<chain, retryCount, chainResponse>>
    /\ UNCHANGED <<ewsTypes, xmlIn, s2jOut, jsonIn, j2sOut, elemIn, elemOut, jvalIn, jvalOut>>
    /\ UNCHANGED <<initVars, objVars, mwVars, loginVars>>

\* part_002 145
ReturnResponse ==
    /\ pc = "response modifiers"
    /\ mwIndex > Len(chain.ResponseModifiers)
    /\ chainReturn' = [response |-> chainResponse, err |-> chainErr]
    /\ pc' = "returned"
    /\ UNCHANGED <<chain, mwIndex, chainCtx, retryCount, chainResponse, chainErr, trace>>
    /\ UNCHANGED <<ewsTypes, xmlIn, s2jOut, jsonIn, j2sOut, elemIn, elemOut, jvalIn, jvalOut>>
    /\ UNCHANGED <<initVars, objVars, mwVars, loginVars>>

NextChain ==
    \/ CallRequestModifier
    \/ StartRetries
    \/ CallTransport
    \/ LeaveRetries
    \/ CallResponseModifier
    \/ ReturnResponse

SpecChain == InitChain /\ [][NextChain]_vars

(***************************************************************************)
(* LoginMiddleware: CheckLogin called at the same time from the responses  *)
(* to login pages and from the keepalive loops, statement by statement.    *)
(* No lock is taken anywhere; the translator's OwaCanary and the           *)
(* middleware's keepAliveTicker are shared by all goroutines.  A goroutine *)
(* holds its position, the canary it checks, what the upstream did with    *)
(* the keepalive call, and what CheckLogin returned to it; meanwhile holds  *)
(* the canaries other goroutines stored since its keepalive call was made. *)
(***************************************************************************)
Canaries == {"canaryA", "canaryB"}

\* what the keepalive call of CheckLogin can meet: the request cannot be built
\* (101-106), the call fails (116-121), a status other than 200 (123-128), a
\* body that cannot be read (130-135), a body without both markers (137-142),
\* or a body with both
Upstreams == {"request", "network", "status", "unreadable", "marker", "ok"}

LoginGoroutines == {<<"login", i>> : i \in 1..MaxLogins}

Goroutine(at, canary, upstream, ret) ==
    [pc |-> at, canary |-> canary, upstream |-> upstream, ret |-> ret, meanwhile |-> {}]

\* between the keepalive call of CheckLogin and its return
InFlight == {"clear", "ticker", "start", "store"}

\* the goroutines as g leaves them when it stores canary and returns true
AfterStore(g, canary) ==
    [h \in DOMAIN goroutines |->
        IF h = g THEN [goroutines[g] EXCEPT !.pc = "returned", !.ret = TRUE, !.meanwhile = {}]
        ELSE IF goroutines[h].pc \in InFlight
        THEN [goroutines[h] EXCEPT !.meanwhile = @ \cup {canary}]
        ELSE goroutines[h]]

\* ews_login_middleware.go 101-142 with the network error taken for a
\* rejected canary
AfterKeepaliveCall_Strict(upstream) == IF upstream = "ok" THEN "ticker" ELSE "clear"

\* ews_login_middleware.go 101-142: where CheckLogin goes on after the call
AfterKeepaliveCall(upstream) ==
    IF upstream = "network" THEN "returned"
    ELSE IF upstream = "ok" THEN "ticker"
    ELSE "clear"

\* ews_login_middleware.go 146
TickerMissing(period, ticker) == period > 0 /\ ticker = Nil

Stands(g, at) == g \in DOMAIN goroutines /\ goroutines[g].pc = at

LoginFrame ==
    /\ UNCHANGED <<request, cctx, response, calls, reply, forwarded>>
    /\ UNCHANGED <<ewsTypes, xmlIn, s2jOut, jsonIn, j2sOut, elemIn, elemOut, jvalIn, jvalOut>>
    /\ UNCHANGED <<pc, initVars, objVars, chainVars>>

InitLogin ==
    /\ pc = "login"
    /\ ewsTypes = InitialTypes
    /\ xmlIn = Nil /\ s2jOut = Nil /\ jsonIn = Nil /\ j2sOut = Nil
    /\ elemIn = Nil /\ elemOut = Nil /\ jvalIn = Nil /\ jvalOut = Nil
    /\ InitializerUnused
    /\ ObjectUnused
    /\ ChainUnused
    /\ OwaCanary = ""
    /\ request = Nil /\ cctx = Nil /\ response = Nil /\ calls = Nil
    /\ reply = Nil /\ forwarded = Nil
    /\ goroutines = [g \in LoginGoroutines |-> Goroutine("response", "", "", FALSE)]
    /\ keepAliveTicker = Nil
    /\ KeepAlivePeriod \in {0, 1}
    /\ tickersStarted = 0
    /\ callbacks = {}

\* ews_login_middleware.go 49-62: the response to a login page, with the
\* canary the finder found in it
LoginResponse(g) ==
    /\ Stands(g, "response")
    /\ \E canary \in Canaries \cup {""} :
          goroutines' = [goroutines EXCEPT ![g] =
              Goroutine(IF canary # "" THEN "CheckLogin" ELSE "after", canary, "", FALSE)]
    /\ UNCHANGED <<OwaCanary, keepAliveTicker, KeepAlivePeriod, tickersStarted, callbacks>>
    /\ LoginFrame

\* ews_login_middleware.go 66-76
LoginResponseDone(g) ==
    /\ Stands(g, "returned") \/ Stands(g, "after")
    /\ g \in LoginGoroutines
    /\ goroutines' = [goroutines EXCEPT ![g].pc = "done"]
    /\ callbacks' = IF OwaCanary # "" THEN callbacks \cup {"onSuccess"} ELSE callbacks
    /\ UNCHANGED <<OwaCanary, keepAliveTicker, KeepAlivePeriod, tickersStarted>>
    /\ LoginFrame

\* ews_login_middleware.go 157-160: a tick with a canary stored
Tick(g) ==
    /\ Stands(g, "tick")
    /\ OwaCanary # ""
    /\ goroutines' = [goroutines EXCEPT ![g].pc = "call"]
    /\ UNCHANGED <<OwaCanary, keepAliveTicker, KeepAlivePeriod, tickersStarted, callbacks>>
    /\ LoginFrame

\* ews_login_middleware.go 164: the stored canary is read again for the call
KeepaliveCalls(g) ==
    /\ Stands(g, "call")
    /\ goroutines' = [goroutines EXCEPT ![g] = Goroutine("CheckLogin", OwaCanary, "", FALSE)]
    /\ UNCHANGED <<OwaCanary, keepAliveTicker, KeepAlivePeriod, tickersStarted, callbacks>>
    /\ LoginFrame

\* ews_login_middleware.go 164-169
KeepaliveChecked(g) ==
    /\ Stands(g, "returned")
    /\ g \notin LoginGoroutines
    /\ goroutines' = [goroutines EXCEPT ![g] = Goroutine("tick", "", "", FALSE)]
    /\ callbacks' = IF ~goroutines[g].ret /\ OwaCanary = ""
                    THEN callbacks \cup {"onTimeout"} ELSE callbacks
    /\ UNCHANGED <<OwaCanary, keepAliveTicker, KeepAlivePeriod, tickersStarted>>
    /\ LoginFrame

\* ews_login_middleware.go 95-142: the empty canary returns at once; else the
\* keepalive call is made and its answer examined
CallKeepalive(g) ==
    /\ Stands(g, "CheckLogin")
    /\ IF goroutines[g].canary = ""
       THEN goroutines' = [goroutines EXCEPT ![g].pc = "returned", ![g].ret = FALSE]
       ELSE \E upstream \in Upstreams :
              goroutines' = [goroutines EXCEPT ![g].pc = AfterKeepaliveCall(upstream),
                                               ![g].upstream = upstream,
                                               ![g].ret = FALSE]
    /\ UNCHANGED <<OwaCanary, keepAliveTicker, KeepAlivePeriod, tickersStarted, callbacks>>
    /\ LoginFrame

\* ews_login_middleware.go 104-105, 126-127, 133-134, 140-141
InvalidateCanary(g) ==
    /\ Stands(g, "clear")
    /\ OwaCanary' = ""
    /\ goroutines' = [goroutines EXCEPT ![g].pc = "returned", ![g].ret = FALSE,
                                        ![g].meanwhile = {}]
    /\ UNCHANGED <<keepAliveTicker, KeepAlivePeriod, tickersStarted, callbacks>>
    /\ LoginFrame

\* ews_login_middleware.go 146: the condition is evaluated
CheckTicker(g) ==
    /\ Stands(g, "ticker")
    /\ goroutines' = [goroutines EXCEPT ![g].pc =
          IF TickerMissing(KeepAlivePeriod, keepAliveTicker) THEN "start" ELSE "store"]
    /\ UNCHANGED <<OwaCanary, keepAliveTicker, KeepAlivePeriod, tickersStarted, callbacks>>
    /\ LoginFrame

\* ews_login_middleware.go 147-148: a ticker is made and a loop started on it
StartKeepalive(g) ==
    /\ Stands(g, "start")
    /\ tickersStarted' = tickersStarted + 1
    /\ keepAliveTicker' = [ticker |-> tickersStarted + 1]
    /\ goroutines' = (<<"keepalive", tickersStarted + 1>> :> Goroutine("tick", "", "", FALSE))
                      @@ [goroutines EXCEPT ![g].pc = "store"]
    /\ UNCHANGED <<OwaCanary, KeepAlivePeriod, callbacks>>
    /\ LoginFrame

\* ews_login_middleware.go 152-153
StoreCanary(g) ==
    /\ Stands(g, "store")
    /\ OwaCanary' = goroutines[g].canary
    /\ goroutines' = AfterStore(g, goroutines[g].canary)
    /\ UNCHANGED <<keepAliveTicker, KeepAlivePeriod, tickersStarted, callbacks>>
    /\ LoginFrame

NextLogin ==
    \/ \E g \in DOMAIN goroutines : LoginResponse(g)
    \/ \E g \in DOMAIN goroutines : LoginResponseDone(g)
    \/ \E g \in DOMAIN goroutines : Tick(g)
    \/ \E g \in DOMAIN goroutines : KeepaliveCalls(g)
    \/ \E g \in DOMAIN goroutines : KeepaliveChecked(g)
    \/ \E g \in DOMAIN goroutines : CallKeepalive(g)
    \/ \E g \in DOMAIN goroutines : InvalidateCanary(g)
    \/ \E g \in DOMAIN goroutines : CheckTicker(g)
    \/ \E g \in DOMAIN goroutines : StartKeepalive(g)
    \/ \E g \in DOMAIN goroutines : StoreCanary(g)

SpecLogin == InitLogin /\ [][NextLogin]_vars

(***************************************************************************)
(* CheckLogin called by one goroutine at a time: each call as a whole.     *)
(***************************************************************************)
\* ews_login_middleware.go 93-154: what CheckLogin(canary) returns and leaves
\* stored when the keepalive call meets upstream, stored being the canary
\* held before; started tells whether a ticker and its loop were started
CheckLogin(canary, upstream, stored, period, ticker) ==
    IF canary = "" THEN [ret |-> FALSE, OwaCanary |-> stored, started |-> FALSE]
    ELSE IF AfterKeepaliveCall(upstream) = "returned"
    THEN [ret |-> FALSE, OwaCanary |-> stored, started |-> FALSE]
    ELSE IF AfterKeepaliveCall(upstream) = "clear"
    THEN [ret |-> FALSE, OwaCanary |-> "", started |-> FALSE]
    ELSE [ret |-> TRUE, OwaCanary |-> canary, started |-> TickerMissing(period, ticker)]

Caller == <<"login", 1>>

InitCheck ==
    /\ pc = "check"
    /\ ewsTypes = InitialTypes
    /\ xmlIn = Nil /\ s2jOut = Nil /\ jsonIn = Nil /\ j2sOut = Nil
    /\ elemIn = Nil /\ elemOut = Nil /\ jvalIn = Nil /\ jvalOut = Nil
    /\ InitializerUnused
    /\ ObjectUnused
    /\ ChainUnused
    /\ OwaCanary \in Canaries \cup {""}
    /\ request = Nil /\ cctx = Nil /\ response = Nil /\ calls = Nil
    /\ reply = Nil /\ forwarded = Nil
    /\ goroutines = (Caller :> Goroutine("CheckLogin", "", "", FALSE))
    /\ keepAliveTicker = Nil
    /\ KeepAlivePeriod \in {0, 1}
    /\ tickersStarted = 0
    /\ callbacks = {}

\* the state after a call of CheckLogin that gave r, made at position at
Checked(at, canary, upstream, r) ==
    /\ OwaCanary' = r.OwaCanary
    /\ tickersStarted' = IF r.started THEN tickersStarted + 1 ELSE tickersStarted
    /\ keepAliveTicker' = IF r.started THEN [ticker |-> tickersStarted + 1] ELSE keepAliveTicker
    /\ goroutines' =
          (IF r.started
           THEN (<<"keepalive", tickersStarted + 1>> :> Goroutine("tick", "", "", FALSE))
           ELSE <<>>)
          @@ [goroutines EXCEPT ![Caller] = Goroutine(at, canary, upstream, r.ret)]

\* ews_login_middleware.go 93-154: one call of CheckLogin
CallCheckLogin ==
    /\ pc = "check"
    /\ \E canary \in Canaries \cup {""}, upstream \in Upstreams :
          Checked("returned", canary, upstream,
                  CheckLogin(canary, upstream, OwaCanary, KeepAlivePeriod, keepAliveTicker))
    /\ UNCHANGED <<KeepAlivePeriod, callbacks>>
    /\ LoginFrame

\* ews_login_middleware.go 66-76 after CheckLogin gave r
LoginChecked(canary, upstream, r) ==
    /\ Checked("done", canary, upstream, r)
    /\ callbacks' = IF r.OwaCanary # "" THEN callbacks \cup {"onSuccess"} ELSE callbacks

\* ews_login_middleware.go 49-76: the response to a login page in which the
\* finder found canary; CheckLogin is called when that is not empty
HandleLoginResponse ==
    /\ pc = "check"
    /\ \E canary \in Canaries \cup {""}, upstream \in Upstreams :
          LoginChecked(canary, upstream,
                  CheckLogin(canary, upstream, OwaCanary, KeepAlivePeriod, keepAliveTicker))
    /\ UNCHANGED KeepAlivePeriod
    /\ LoginFrame

NextCheck == CallCheckLogin \/ HandleLoginResponse

SpecCheck == InitCheck /\ [][NextCheck]_vars

(***************************************************************************)
(* Round trip of one element: XML -> JSON by processElement, the JSON      *)
(* text written by the encoder and read back by JSON2SOAP's decoder, then  *)
(* JSON -> XML by processJson.                                             *)
(***************************************************************************)
\* json2soap.go 56-60: what d.Decode (UseNumber) reads from the encoding of v
RECURSIVE Decode(_)
Decode(v) ==
    CASE v.k = "int" -> JNum(<<Itoa(v.i)>>)
      [] v.k = "oobj" ->
            JMap([key \in {v.o[i].Key : i \in DOMAIN v.o} |->
                    Decode(v.o[CHOOSE i \in DOMAIN v.o :
                                  /\ v.o[i].Key = key
                                  /\ \A j \in DOMAIN v.o : v.o[j].Key = key => j <= i].Value)])
      [] v.k = "map" -> JMap([key \in DOMAIN v.m |-> Decode(v.m[key])])
      [] v.k = "list" -> JList([i \in DOMAIN v.l |-> Decode(v.l[i])])
      [] OTHER -> v

FlagLabels == <<"None", "A", "B", "C">>

\* the labels of the set S of label positions, ascending
RECURSIVE LabelsOf(_, _)
LabelsOf(S, i) ==
    IF i > Len(FlagLabels) THEN <<>>
    ELSE (IF i \in S THEN <<FlagLabels[i]>> ELSE <<>>) \o LabelsOf(S, i + 1)

FlagTexts == {Join(LabelsOf(S, 1), " ") : S \in SUBSET (DOMAIN FlagLabels)}

\* an element holding text, which the decoder reports only when not empty
TextLeaf(name, text) == XElem(name, <<>>, IF text = <<>> THEN <<>> ELSE <<XText(text)>>)

RoundKids ==
    {<<TextLeaf("Flags", t)>> : t \in FlagTexts}
    \cup {<<Leaf("Flags", <<"\n">> \o t \o <<" ">>)>> : t \in FlagTexts}
    \cup {<<Leaf("Mode", <<FlagLabels[i]>>)>> : i \in DOMAIN FlagLabels}
    \cup {<<Leaf("DisplayName", <<"Inbox">>), TextLeaf("Flags", t)>> : t \in FlagTexts}

RoundElems == {XElem("Folder", <<>>, ks) : ks \in RoundKids}

FolderElement == SingleElement("Folder", "t", "Folder", "FolderType")

InitRound ==
    /\ pc = "round"
    /\ ewsTypes = InitialTypes
    /\ ProxyUnused
    /\ \E e \in RoundElems :
          elemIn = [el |-> StartOf(e),
                    d |-> KidTokens(e.kids) \o <<[k |-> "end", name |-> e.name]>>,
                    typ |-> "FolderType"]
    /\ elemOut = Nil
    /\ jvalIn = Nil
    /\ jvalOut = Nil
    /\ xmlIn = Nil
    /\ s2jOut = Nil
    /\ jsonIn = Nil
    /\ j2sOut = Nil

XmlToJson ==
    /\ pc = "round"
    /\ elemOut' = processElement(elemIn.d, 1, elemIn.el, elemIn.typ)
    /\ pc' = "roundJson"
    /\ UNCHANGED <<ewsTypes, elemIn, jvalIn, jvalOut, xmlIn, s2jOut, jsonIn, j2sOut>>
    /\ UNCHANGED proxyVars

JsonToXml ==
    /\ pc = "roundJson"
    /\ elemOut.err = Nil
    /\ jvalIn' = [element |-> Decode(elemOut.ret), edesc |-> FolderElement]
    /\ jvalOut' = processJson(Decode(elemOut.ret), FolderElement)
    /\ pc' = "roundDone"
    /\ UNCHANGED <<ewsTypes, elemIn, elemOut, xmlIn, s2jOut, jsonIn, j2sOut>>
    /\ UNCHANGED proxyVars

NextRound == XmlToJson \/ JsonToXml

SpecRound == InitRound /\ [][NextRound]_vars

(***************************************************************************)
(* Properties.                                                             *)
(***************************************************************************)
\* the names of the start tokens of d, in order
RECURSIVE StartNames(_)
StartNames(d) ==
    IF d = <<>> THEN <<>>
    ELSE (IF Head(d).k = "start" THEN <<Head(d).name>> ELSE <<>>) \o StartNames(Tail(d))

\* an operation element whose children are elements of pairwise distinct names
PlainOp(o) ==
    /\ o.name \in OpNames
    /\ \A i \in DOMAIN o.kids : o.kids[i].k = "elem"
    /\ \A i, j \in DOMAIN o.kids : o.kids[i].name = o.kids[j].name => i = j

\* the requests that hold a Body with a known operation and no Header at all
NoHeaderRequests ==
    {Tokens(XElem("Envelope", <<XmlnsAttr("soap")>>, <<XElem("Body", <<>>, <<o>>)>>)) :
        o \in {x \in OpElems : PlainOp(x)}}

\* the member of the ordered object members with key key, JNull if none
MemberValue(members, key) ==
    IF \E i \in DOMAIN members : members[i].Key = key
    THEN members[CHOOSE i \in DOMAIN members : members[i].Key = key].Value
    ELSE JNull

\* C1: a request with a Body (known operation) and no Header element is
\* translated successfully, and the JSON Header is the object
\* {"__type":"JsonRequestHeaders:#Exchange","RequestServerVersion":"Exchange2013"}.
C1_NoHeaderGetsDefaultHeader ==
    (pc = "translated" /\ xmlIn \in NoHeaderRequests) =>
        /\ s2jOut.err = Nil
        /\ MemberValue(s2jOut.ret.o, "Header") =
              JOObj(<<[Key |-> "__type", Value |-> JStr(<<"JsonRequestHeaders", ":#Exchange">>)],
                      [Key |-> "RequestServerVersion", Value |-> JStr(<<"Exchange2013">>)]>>)

\* the keys of element that processJsonObject consumes for the type typ
ConsumedKeys(typ) ==
    {"__type"}
    \cup {typ.Attributes[i].JN : i \in DOMAIN typ.Attributes}
    \cup (IF typ.IsSimple /\ typ.TextAttr # "" THEN {typ.TextAttr}
          ELSE IF typ.JsonListName # "" THEN {typ.JsonListName}
          ELSE {typ.JsonElementList[i].JsonName : i \in DOMAIN typ.JsonElementList})
    \cup {typ.JsonExtra[i] : i \in DOMAIN typ.JsonExtra}

\* the state holds an object translated against a single complex type
ObjectTranslated ==
    /\ pc = "valueDone"
    /\ jvalIn.element.k = "map"
    /\ jvalIn.edesc.SingleType # Nil
    /\ LET t == ewsTypes[jvalIn.edesc.SingleType.Type]
       IN  ~t.IsSimple \/ t.TextAttr # ""

LeftoverKeys == (DOMAIN jvalIn.element.m) \ ConsumedKeys(ewsTypes[jvalIn.edesc.SingleType.Type])

\* C2: an object with a key that is neither __type, a declared attribute, a
\* declared child (or the text-attr / list key) nor a droppable extra is never
\* translated successfully, and when everything declared was consumed without
\* error the error is the one naming the type; an object with only declared or
\* droppable keys never gets that error.
C2_UnknownKeysFail ==
    ObjectTranslated =>
        LET typ == ewsTypes[jvalIn.edesc.SingleType.Type]
            a == CollectAttrs(typ.Attributes, 1, MapDelete(jvalIn.element.m, "__type"), <<>>)
            consumedOk == a.err = Nil /\ ObjectBody(typ, a.element).err = Nil
        IN  /\ LeftoverKeys # {} => jvalOut.err # Nil
            /\ (LeftoverKeys # {} /\ consumedOk) =>
                    jvalOut.err = Err("extra elements", typ.Name)
            /\ LeftoverKeys = {} => jvalOut.err # Err("extra elements", typ.Name)

C2_Witness ==
    /\ ObjectTranslated
    /\ LeftoverKeys = {"Bogus"}
    /\ "Extra" \in DOMAIN jvalIn.element.m
    /\ jvalOut.err = Err("extra elements", "FolderResponseShapeType")

\* the state holds a JSON number translated for an element of an enum type
EnumScalarTranslated ==
    /\ pc = "valueDone"
    /\ jvalIn.element.k = "num"
    /\ jvalIn.edesc.SingleType # Nil
    /\ ewsTypes[jvalIn.edesc.SingleType.Type].IsSimple
    /\ ewsTypes[jvalIn.edesc.SingleType.Type].SimpleType = T_ENUM

\* C3: for an enum element, the JSON integer i with 0 <= i < number of labels
\* emits the label EnumValues[i]; every other integer makes the call return an
\* error (it does not crash and emits no label).
C3_EnumIndexChecked ==
    EnumScalarTranslated =>
        LET labels == ewsTypes[jvalIn.edesc.SingleType.Type].EnumValues
        IN  \A n \in IntRange :
                jvalIn.element.n = <<IF n < 0 THEN "-" \o Itoa(0 - n) ELSE Itoa(n)>> =>
                    IF 0 <= n /\ n < Len(labels)
                    THEN /\ jvalOut.err = Nil
                         /\ jvalOut.out[2] = CharData(<<labels[n + 1]>>)
                    ELSE /\ jvalOut.err # Nil
                         /\ jvalOut.err.kind # "panic"

\* the text of the first Flags child among the tokens d, and the words in it
FlagsText(d) ==
    IF \E i \in DOMAIN d : d[i].k = "start" /\ d[i].name = "Flags"
    THEN LET i == CHOOSE i \in DOMAIN d : d[i].k = "start" /\ d[i].name = "Flags"
         IN  IF d[i + 1].k = "chardata" THEN d[i + 1].t ELSE <<>>
    ELSE <<>>

Words(text) == {text[i] : i \in {j \in DOMAIN text : text[j] \notin TrimCutset}}

\* the sum of 2^(i-1) over the positions i of S
RECURSIVE BitSum(_)
BitSum(S) ==
    IF S = {} THEN 0
    ELSE LET i == CHOOSE x \in S : TRUE IN 2 ^ (i - 1) + BitSum(S \ {i})

\* the chardata emitted for the child tag among the output tokens out
EmittedText(out, tag) ==
    IF \E i \in DOMAIN out : out[i].k = "start" /\ out[i].tag = tag
    THEN LET i == CHOOSE i \in DOMAIN out : out[i].k = "start" /\ out[i].tag = tag
         IN  IF i < Len(out) /\ out[i + 1].k = "chardata" THEN out[i + 1] ELSE Nil
    ELSE Nil

\* the element of the round trip has a Flags child with at least one label
RoundWithFlags == Words(FlagsText(elemIn.d)) # {}

\* C4: a list-of-enum element with the labels of a set S is translated to the
\* JSON integer whose bit i is set exactly for the labels of position i in S,
\* and translating that JSON back gives the same labels, ascending and
\* separated by single spaces.
C4_BitfieldRoundTrip ==
    LET S == {i \in DOMAIN FlagLabels : FlagLabels[i] \in Words(FlagsText(elemIn.d))}
    IN  /\ (pc = "roundJson" /\ RoundWithFlags) =>
              /\ elemOut.err = Nil
              /\ elemOut.ret.k = "oobj"
              /\ MemberValue(elemOut.ret.o, "Flags") = JInt(BitSum(S))
        /\ (pc = "roundDone" /\ RoundWithFlags) =>
              /\ jvalOut.err = Nil
              /\ EmittedText(jvalOut.out, <<"t", "Flags">>) = CharData(Join(LabelsOf(S, 1), " "))

\* the value v is the JSON number or string that spells the integer n
SpellsInteger(v, n) ==
    /\ v.k \in {"num", "str"}
    /\ (IF v.k = "num" THEN v.n ELSE v.s) \in
          (IF n >= 0 THEN {<<Itoa(n)>>, <<"+" \o Itoa(n)>>} ELSE {<<"-" \o Itoa(0 - n)>>})

\* bit b (from 0) of the two's complement integer n is set
BitSet(n, b) ==
    \E q \in (0 - MaxNum - 1)..(MaxNum + 1), r \in 0..(2 ^ b - 1) :
        n = q * 2 ^ (b + 1) + 2 ^ b + r

\* the state holds a FolderShape object with a Flags key (a list of FlagEnum)
\* and nothing else that could fail
FlagsTranslated ==
    /\ pc = "valueDone"
    /\ jvalIn.element.k = "map"
    /\ jvalIn.edesc.SingleType # Nil
    /\ jvalIn.edesc.SingleType.Type = "FolderResponseShapeType"
    /\ "Flags" \in DOMAIN jvalIn.element.m
    /\ DOMAIN jvalIn.element.m \subseteq {"Flags", "Lang", "Mode"}

\* C5: a list-of-enum value that is the integer n is emitted as the labels
\* EnumValues[i] of the set bits i of n, ascending in i and joined by single
\* spaces (6 over None,A,B,C gives "A B"); a value that is not an integer
\* gives an error and no Flags element.
C5_BitfieldLabels ==
    FlagsTranslated =>
        LET v == jvalIn.element.m["Flags"]
        IN  /\ \A n \in IntRange :
                  SpellsInteger(v, n) =>
                      /\ jvalOut.err = Nil
                      /\ EmittedText(jvalOut.out, <<"t", "Flags">>) =
                            CharData(Join(LabelsOf({i \in DOMAIN FlagLabels : BitSet(n, i - 1)}, 1),
                                          " "))
            /\ v = JNum(<<"6">>) =>
                  EmittedText(jvalOut.out, <<"t", "Flags">>) = CharData(<<"A", " ", "B">>)
            /\ (~ \E n \in IntRange : SpellsInteger(v, n)) =>
                  /\ jvalOut.err # Nil
                  /\ jvalOut.err.kind # "panic"
                  /\ EmittedText(jvalOut.out, <<"t", "Flags">>) = Nil

C5_Witness ==
    /\ FlagsTranslated
    /\ jvalIn.element.m["Flags"] = JNum(<<"6">>)
    /\ jvalOut.err = Nil
    /\ EmittedText(jvalOut.out, <<"t", "Flags">>) = CharData(<<"A", " ", "B">>)

\* the response was translated as far as the Body: the Body start tag is out
ReachedStamping ==
    /\ pc = "replied"
    /\ \E i \in DOMAIN j2sOut.out :
          j2sOut.out[i].k = "start" /\ j2sOut.out[i].tag = <<"soap", "Body">>

\* the child names declared on the response type of the operation
ResponseChildren ==
    DOMAIN ewsTypes[EwsOperations[jsonIn.op].Response.SingleType.Type].TypeByElementName

StampErrors == {"cannot find Items", "cannot convert items to array", "item is not a JSON object"}

\* the body child c is an object that stamping cannot work on
Unstampable(c) ==
    LET body == jsonIn.msg.Body.m
    IN  /\ c \in ResponseChildren \cap DOMAIN body
        /\ body[c].k = "map"
        /\ \/ "Items" \notin DOMAIN body[c].m
           \/ body[c].m["Items"].k # "list"
           \/ \E i \in DOMAIN body[c].m["Items"].l : body[c].m["Items"].l[i].k # "map"

\* C6 (as written): a declared body child that is an object without an Items
\* key, and an Items element that is not an object, are skipped by stamping
\* without error.
C6_DefectsSkipped ==
    (/\ ReachedStamping
     /\ \A c \in ResponseChildren \cap DOMAIN jsonIn.msg.Body.m :
           LET v == jsonIn.msg.Body.m[c]
           IN  (v.k = "map" /\ "Items" \in DOMAIN v.m) => v.m["Items"].k = "list")
    => /\ j2sOut.stamped # JNull
       /\ j2sOut.err = Nil \/ j2sOut.err.kind \notin StampErrors

\* C6 (amended): stamping skips a declared body child only when it is absent,
\* null or not an object, leaving it as it was; a child that is an object
\* without an Items key, with Items that is not an array, or with an item that
\* is not an object makes JSON2SOAP return an error before any of the body is
\* written.
C6_OnlyNonObjectsSkipped ==
    ReachedStamping =>
        IF \E c \in ResponseChildren : Unstampable(c)
        THEN /\ j2sOut.err # Nil
             /\ j2sOut.err.kind \in StampErrors
             /\ j2sOut.stamped = JNull
             /\ j2sOut.out[Len(j2sOut.out)] = [k |-> "start", tag |-> <<"soap", "Body">>, attrs |-> <<>>]
        ELSE /\ j2sOut.stamped # JNull
             /\ j2sOut.err = Nil \/ j2sOut.err.kind \notin StampErrors
             /\ \A c \in DOMAIN jsonIn.msg.Body.m :
                   jsonIn.msg.Body.m[c].k # "map" => j2sOut.stamped.m[c] = jsonIn.msg.Body.m[c]

C6_Witness ==
    /\ ReachedStamping
    /\ "ResponseMessages" \in DOMAIN jsonIn.msg.Body.m
    /\ jsonIn.msg.Body.m["ResponseMessages"] = JMap(EmptyMap)
    /\ j2sOut.err = Err("cannot find Items", "ResponseMessages")

\* C7: after stamping, every object in the Items array of a declared body
\* child has __type equal to the response JSON name followed by "Message"
\* (replacing any former __type) and its other keys as before; nothing else in
\* the body is changed.
C7_ItemsStamped ==
    (pc = "replied" /\ j2sOut.stamped # JNull) =>
        LET body == jsonIn.msg.Body.m
            after == j2sOut.stamped.m
            hint == JStr(<<EwsOperations[jsonIn.op].Response.JsonName \o "Message">>)
        IN  /\ DOMAIN after = DOMAIN body
            /\ \A c \in DOMAIN body :
                  IF c \in ResponseChildren /\ body[c].k = "map"
                  THEN /\ after[c].k = "map"
                       /\ DOMAIN after[c].m = DOMAIN body[c].m
                       /\ \A key \in DOMAIN body[c].m \ {"Items"} : after[c].m[key] = body[c].m[key]
                       /\ after[c].m["Items"].k = "list"
                       /\ Len(after[c].m["Items"].l) = Len(body[c].m["Items"].l)
                       /\ \A i \in DOMAIN body[c].m["Items"].l :
                             LET old == body[c].m["Items"].l[i].m
                                 new == after[c].m["Items"].l[i]
                             IN  /\ new.k = "map"
                                 /\ DOMAIN new.m = DOMAIN old \cup {"__type"}
                                 /\ new.m["__type"] = hint
                                 /\ \A key \in DOMAIN old \ {"__type"} : new.m[key] = old[key]
                  ELSE after[c] = body[c]

C7_Witness ==
    /\ pc = "replied"
    /\ j2sOut.stamped # JNull
    /\ jsonIn.op = "GetFolder"
    /\ "ResponseMessages" \in DOMAIN jsonIn.msg.Body.m
    /\ jsonIn.msg.Body.m["ResponseMessages"].k = "map"
    /\ LET items == jsonIn.msg.Body.m["ResponseMessages"].m["Items"].l
           after == j2sOut.stamped.m["ResponseMessages"].m["Items"].l
       IN  /\ Len(items) = 2
           /\ "__type" \in DOMAIN items[1].m
           /\ items[1].m["__type"] = JStr(Exch("Stale"))
           /\ "__type" \notin DOMAIN items[2].m
           /\ after[1].m["__type"] = JStr(<<"GetFolderResponseMessage">>)
           /\ after[2].m["__type"] = JStr(<<"GetFolderResponseMessage">>)

\* the names of the start tokens of d at nesting depth 0, in order
RECURSIVE TopStarts(_, _, _)
TopStarts(d, i, depth) ==
    IF i > Len(d) THEN <<>>
    ELSE CASE d[i].k = "start" ->
                (IF depth = 0 THEN <<d[i].name>> ELSE <<>>) \o TopStarts(d, i + 1, depth + 1)
           [] d[i].k = "end" -> TopStarts(d, i + 1, depth - 1)
           [] OTHER -> TopStarts(d, i + 1, depth)

\* the sequence s without second and later occurrences of a member
RECURSIVE FirstOccurrences(_)
FirstOccurrences(s) ==
    IF s = <<>> THEN <<>>
    ELSE LET front == FirstOccurrences(SubSeq(s, 1, Len(s) - 1))
             last == s[Len(s)]
         IN  IF \E i \in DOMAIN front : front[i] = last THEN front ELSE Append(front, last)

\* the members of s that are not in the set S
Without(s, S) == SelectSeq(s, LAMBDA x : x \notin S)

Range(s) == {s[i] : i \in DOMAIN s}

\* the state holds an element translated, without error, to a JSON object
\* against a complex type with declared children
ElementObject ==
    /\ pc = "elementDone"
    /\ elemIn.typ \in {"FolderResponseShapeType", "ResolveNamesType"}
    /\ elemOut.err = Nil
    /\ elemOut.ret.k = "oobj"

KeysOf(members) == [i \in DOMAIN members |-> members[i].Key]

\* the JSON keys of the attributes of el, in the order of the input
InputAttrKeys(el, typ) ==
    LET declared == SelectSeq(el.attr, LAMBDA a : ~IsXmlns(a))
    IN  [i \in DOMAIN declared |-> typ.AttrsNames[declared[i].Local]]

\* the JSON keys of the children among the tokens d, by first appearance
InputChildKeys(d, typ) ==
    LET names == TopStarts(d, 1, 0)
    IN  FirstOccurrences([i \in DOMAIN names |-> typ.TypeByElementName[names[i]].JsonName])

DeclaredKeys(typ) == [i \in DOMAIN typ.JsonElementList |-> typ.JsonElementList[i].JsonName]

DefaultKeys(typ) == [i \in DOMAIN typ.JsonDefaults |-> typ.JsonDefaults[i].JsonName]

PositionIn(s, x) == CHOOSE i \in DOMAIN s : s[i] = x

\* C8 (as written): the child keys of each object are in the order declared
\* by the element list of the type, whatever the order of the input, and the
\* default keys added for absent children come after them in declared order.
C8_DeclaredOrder ==
    ElementObject =>
        LET typ == ewsTypes[elemIn.typ]
            keys == KeysOf(elemOut.ret.o)
            declared == DeclaredKeys(typ)
        IN  \A i, j \in DOMAIN keys :
                (i < j /\ keys[i] \in Range(declared) /\ keys[j] \in Range(declared)
                       /\ keys[i] \in Range(InputChildKeys(elemIn.d, typ))
                       /\ keys[j] \in Range(InputChildKeys(elemIn.d, typ)))
                    => PositionIn(declared, keys[i]) < PositionIn(declared, keys[j])

\* C8 (amended): the keys of each object are in the order in which they were
\* first set: __type, the attributes in input order, the child keys by first
\* appearance in the XML input, then the default keys of absent children in
\* the order the defaults are declared, then the key added by the hook.
C8_InputOrder ==
    ElementObject =>
        LET typ == ewsTypes[elemIn.typ]
            hint == IF typ.JsonType # <<>> THEN <<"__type">> ELSE <<>>
            attrs == InputAttrKeys(elemIn.el, typ)
            kids == InputChildKeys(elemIn.d, typ)
            defaults == Without(DefaultKeys(typ), Range(attrs) \cup Range(kids))
            hook == IF elemIn.typ = "ResolveNamesType" /\ "ContactDataShape" \notin Range(attrs)
                    THEN <<"ContactDataShape">> ELSE <<>>
        IN  KeysOf(elemOut.ret.o) = hint \o attrs \o kids \o defaults \o hook

C8_Witness ==
    /\ ElementObject
    /\ elemIn.typ = "FolderResponseShapeType"
    /\ TopStarts(elemIn.d, 1, 0) = <<"Flags", "BaseShape">>
    /\ KeysOf(elemOut.ret.o) = <<"__type", "Flags", "BaseShape", "IncludeMime", "Depth">>

\* the element translated has no character data and no comment among its
\* children
ElementsOnly == \A i \in DOMAIN elemIn.d : elemIn.d[i].k \in {"start", "end"}

\* C9: an element translated against a type with JSON defaults or a hook,
\* be it without attributes, children and text, gives a JSON object that
\* holds every default key (its own value when the input set it, else the
\* default literal) and, for ResolveNamesType, ContactDataShape ("Default"
\* when the input did not set it).
C9_DefaultsAlways ==
    (/\ pc = "elementDone"
     /\ elemIn.typ \in {"FolderResponseShapeType", "ResolveNamesType"}
     /\ ElementsOnly
     /\ elemOut.err = Nil)
    => LET typ == ewsTypes[elemIn.typ]
       IN  /\ elemOut.ret.k = "oobj"
           /\ \A i \in DOMAIN typ.JsonDefaults :
                 /\ typ.JsonDefaults[i].JsonName \in Range(KeysOf(elemOut.ret.o))
                 /\ typ.JsonDefaults[i].JsonName \notin Range(InputChildKeys(elemIn.d, typ)) =>
                       MemberValue(elemOut.ret.o, typ.JsonDefaults[i].JsonName) =
                           typ.JsonDefaults[i].JsonDefault
           /\ elemIn.typ = "ResolveNamesType" =>
                 /\ "ContactDataShape" \in Range(KeysOf(elemOut.ret.o))
                 /\ "ContactDataShape" \notin Range(InputAttrKeys(elemIn.el, typ)) =>
                       MemberValue(elemOut.ret.o, "ContactDataShape") = JStr(<<"Default">>)

\* the state holds an element translated, without error, against a type with
\* a JSON discriminator that is not a bare list
HintedElement ==
    /\ pc = "elementDone"
    /\ elemOut.err = Nil
    /\ ewsTypes[elemIn.typ].JsonType # <<>>
    /\ ~ewsTypes[elemIn.typ].IsList

HasChildElements == TopStarts(elemIn.d, 1, 0) # <<>>

\* the element has character data that is not all white space, directly in it
HasText ==
    \E i \in DOMAIN elemIn.d :
        /\ elemIn.d[i].k = "chardata"
        /\ Trim(elemIn.d[i].t) # <<>>
        /\ Cardinality({j \in 1..i : elemIn.d[j].k = "start"}) =
              Cardinality({j \in 1..i : elemIn.d[j].k = "end"})

FirstIsHint(members, hint) ==
    /\ Len(members) >= 1
    /\ members[1] = [Key |-> "__type", Value |-> JStr(hint)]
    /\ \A i \in DOMAIN members : members[i].Key = "__type" => i = 1

\* C10 (as written): the result for an element of a type with discriminator D
\* is an object with first key "__type": D when the element has child
\* elements, and carries no __type otherwise.
C10_HintIffChildren ==
    HintedElement =>
        IF HasChildElements
        THEN elemOut.ret.k = "oobj" /\ FirstIsHint(elemOut.ret.o, ewsTypes[elemIn.typ].JsonType)
        ELSE elemOut.ret.k = "oobj" => "__type" \notin Range(KeysOf(elemOut.ret.o))

\* C10 (amended): every JSON object produced for an element of a type with
\* discriminator D has "__type": D as its first and only __type key; the
\* result is such an object when the element has a child element, an
\* attribute (an xmlns one too) or, for a text-attr type, text, unless a type
\* that is not text-attr has text (the result is then a scalar); an element
\* with none of these gives null.
C10_HintOnEveryObject ==
    HintedElement =>
        LET typ == ewsTypes[elemIn.typ]
        IN  /\ elemOut.ret.k = "oobj" => FirstIsHint(elemOut.ret.o, typ.JsonType)
            /\ elemOut.ret.k \notin {"map", "list"}
            /\ (typ.TextAttr = "" /\ HasText) => elemOut.ret.k \notin {"oobj", "null"}
            /\ (typ.TextAttr # "" \/ ~HasText) =>
                  (elemOut.ret.k = "oobj" <=>
                      (HasChildElements \/ elemIn.el.attr # <<>> \/ HasText))
            /\ (~HasChildElements /\ elemIn.el.attr = <<>> /\ ~HasText) => elemOut.ret = JNull

C10_Witness ==
    /\ HintedElement
    /\ ~HasChildElements
    /\ ~HasText
    /\ elemIn.el.attr = <<XAttr("Lang", <<"en">>)>>
    /\ elemOut.ret.k = "oobj"
    /\ elemOut.ret.o[1] = [Key |-> "__type", Value |-> JStr(Exch("FolderResponseShape"))]

\* the local name of the first start element after the start of Body in the
\* request d, "" when there is none
OperationName(d) ==
    LET names == StartNames(d)
    IN  IF \E i \in DOMAIN names : names[i] = "Body" /\ i < Len(names)
        THEN names[(CHOOSE i \in DOMAIN names :
                       /\ names[i] = "Body"
                       /\ \A j \in DOMAIN names : names[j] = "Body" => i <= j) + 1]
        ELSE ""

\* SOAP2JSON returned without error
RequestTranslated == pc = "translated" /\ s2jOut.err = Nil

\* C11: whenever SOAP2JSON succeeds, the message has exactly the keys __type,
\* Header, Body in that order, __type is the RequestType of the catalog entry
\* named by the first start element under Body, that entry is the returned
\* descriptor, and Body is an object whose first key is __type with the value
\* of that entry's BodyType.
C11_MessageShape ==
    RequestTranslated =>
        /\ s2jOut.ret.k = "oobj"
        /\ KeysOf(s2jOut.ret.o) = <<"__type", "Header", "Body">>
        /\ OperationName(xmlIn) \in OpNames
        /\ s2jOut.op = OperationName(xmlIn)
        /\ s2jOut.ret.o[1].Value = JStr(EwsOperations[OperationName(xmlIn)].RequestType)
        /\ s2jOut.ret.o[3].Value.k = "oobj"
        /\ Len(s2jOut.ret.o[3].Value.o) > 0
        /\ s2jOut.ret.o[3].Value.o[1] =
              [Key |-> "__type",
               Value |-> JStr(EwsOperations[OperationName(xmlIn)].BodyType)]

\* the attributes of the element processElement was applied to that are not
\* namespace declarations
PlainAttrs == {a \in Range(elemIn.el.attr) : ~IsXmlns(a)}

\* C12: an element that carries a non-xmlns attribute not declared on its type
\* fails, whatever the kind of the type (complex, simple with text-attr, plain
\* simple, list); when the element is translated, each declared attribute is
\* converted and stored under its JSON name.
C12_UndeclaredAttributeFails ==
    pc = "elementDone" =>
        LET typ == ewsTypes[elemIn.typ]
        IN  /\ (\E a \in PlainAttrs : a.Local \notin DOMAIN typ.Attrs) => elemOut.err # Nil
            /\ elemOut.err = Nil =>
                  \A a \in PlainAttrs :
                      /\ elemOut.ret.k = "oobj"
                      /\ MemberValue(elemOut.ret.o, typ.AttrsNames[a.Local]) =
                            convertSimpleToJson(ewsTypes[typ.Attrs[a.Local]], a.Value)

\* the index in d of the first start token named name, 0 when there is none
StartIndex(d, name) ==
    IF \E i \in DOMAIN d : d[i].k = "start" /\ d[i].name = name
    THEN CHOOSE i \in DOMAIN d :
            /\ d[i].k = "start" /\ d[i].name = name
            /\ \A j \in 1..(i - 1) : ~(d[j].k = "start" /\ d[j].name = name)
    ELSE 0

\* the index in d of the first start token after the start of Body, 0 if none
OperationIndex(d) ==
    IF StartIndex(d, "Body") > 0
       /\ \E i \in DOMAIN d : i > StartIndex(d, "Body") /\ d[i].k = "start"
    THEN CHOOSE i \in DOMAIN d :
            /\ i > StartIndex(d, "Body") /\ d[i].k = "start"
            /\ \A j \in (StartIndex(d, "Body") + 1)..(i - 1) : d[j].k # "start"
    ELSE 0

\* some start token of d from position i on, inside the element whose open
\* ancestors have the types of stack (innermost first), has a name the type of
\* its parent does not declare
RECURSIVE HasStranger(_, _, _)
HasStranger(d, i, stack) ==
    IF i > Len(d) \/ stack = <<>> THEN FALSE
    ELSE CASE d[i].k = "start" ->
                 IF d[i].name \notin DOMAIN ewsTypes[Head(stack)].TypeByElementName
                 THEN TRUE
                 ELSE HasStranger(d, i + 1,
                         <<ewsTypes[Head(stack)].TypeByElementName[d[i].name].Type>> \o stack)
           [] d[i].k = "end" -> HasStranger(d, i + 1, Tail(stack))
           [] OTHER -> HasStranger(d, i + 1, stack)

\* the request d has an undeclared child somewhere under its Header or under
\* its operation element
UnknownChild(d) ==
    \/ /\ StartIndex(d, "Header") > 0
       /\ HasStranger(d, StartIndex(d, "Header") + 1, <<EwsSoapRequestHeader>>)
    \/ /\ OperationIndex(d) > 0
       /\ d[OperationIndex(d)].name \in OpNames
       /\ HasStranger(d, OperationIndex(d) + 1,
                      <<EwsOperations[d[OperationIndex(d)].name].Request>>)

\* the first element under Body is not an action of the catalog
UnknownOperation(d) == OperationIndex(d) > 0 /\ d[OperationIndex(d)].name \notin OpNames

\* C13: a request with a child element its parent's type does not declare, or
\* whose Body starts with an element that is not an action of the catalog, is
\* never translated: SOAP2JSON returns an error and no JSON.
C13_UnknownNamesFail ==
    (pc = "translated" /\ (UnknownChild(xmlIn) \/ UnknownOperation(xmlIn))) =>
        /\ s2jOut.err # Nil
        /\ s2jOut.ret = Nil

C13_Witness ==
    /\ pc = "translated"
    /\ UnknownChild(xmlIn)
    /\ ~UnknownOperation(xmlIn)
    /\ StartIndex(xmlIn, "Header") > 0
    /\ StartIndex(xmlIn, "Header") < StartIndex(xmlIn, "Body")
    /\ StartIndex(xmlIn, "FolderShape") > 0
    /\ s2jOut.err = Err("unknown type", "Bogus")
    /\ s2jOut.ret = Nil

\* processElement was applied to an element of a type that is an object and
\* not a list
PlainParent ==
    /\ pc = "elementDone"
    /\ ~ewsTypes[elemIn.typ].IsSimple
    /\ ~ewsTypes[elemIn.typ].IsList
    /\ ewsTypes[elemIn.typ].JsonListName = ""

\* the JSON keys the element sets before it reads its children
EarlyKeys ==
    (IF ewsTypes[elemIn.typ].JsonType # <<>> THEN {"__type"} ELSE {})
    \cup {ewsTypes[elemIn.typ].AttrsNames[a.Local] :
            a \in {x \in PlainAttrs : x.Local \in DOMAIN ewsTypes[elemIn.typ].Attrs}}

\* every attribute and every child of the element is declared on its type
AllDeclared ==
    /\ \A a \in PlainAttrs : a.Local \in DOMAIN ewsTypes[elemIn.typ].Attrs
    /\ \A n \in Range(TopStarts(elemIn.d, 1, 0)) :
          n \in DOMAIN ewsTypes[elemIn.typ].TypeByElementName

\* the child descriptors of the children of the element, in input order
ChildDescriptors ==
    [i \in DOMAIN TopStarts(elemIn.d, 1, 0) |->
        ewsTypes[elemIn.typ].TypeByElementName[TopStarts(elemIn.d, 1, 0)[i]]]

\* a child that is not a list sets a JSON key that is already set: by an
\* earlier child, by an attribute or by the type hint
KeyCollision ==
    \E j \in DOMAIN ChildDescriptors :
        /\ ~ChildDescriptors[j].IsList
        /\ \/ ChildDescriptors[j].JsonName \in EarlyKeys
           \/ \E i \in 1..(j - 1) : ChildDescriptors[i].JsonName = ChildDescriptors[j].JsonName

\* C14: under a parent that is not a list, a non-list child whose JSON key is
\* already set (by an earlier child, an attribute or __type) makes the
\* translation fail with the collision error: no output keeps or replaces the
\* earlier value.
C14_CollisionFails ==
    (PlainParent /\ AllDeclared /\ KeyCollision) =>
        /\ elemOut.err = Err("collision", elemIn.typ)
        /\ elemOut.ret = JNull

C14_Witness ==
    /\ PlainParent /\ AllDeclared /\ KeyCollision
    /\ elemIn.typ = "NamedIdType"
    /\ PlainAttrs # {}
    /\ TopStarts(elemIn.d, 1, 0) = <<"Note", "Label">>
    /\ elemOut.err = Err("collision", "NamedIdType")

\* the start token tok has an attribute named local, and its value
HasAttr(tok, local) == \E i \in DOMAIN tok.attr : tok.attr[i].Local = local

AttrValue(tok, local) ==
    tok.attr[CHOOSE i \in DOMAIN tok.attr : tok.attr[i].Local = local].Value

\* the request d has a RequestServerVersion element with a Version attribute
HasVersion(d) ==
    /\ StartIndex(d, "RequestServerVersion") > 0
    /\ HasAttr(d[StartIndex(d, "RequestServerVersion")], "Version")

RequestedVersion(d) == AttrValue(d[StartIndex(d, "RequestServerVersion")], "Version")

\* the Header of the message SOAP2JSON returned
JsonHeader == s2jOut.ret.o[2].Value

\* the Header element of the request as processSoapElement translates it
TranslatedHeader ==
    processSoapElement(xmlIn, StartIndex(xmlIn, "Header") + 1,
                       xmlIn[StartIndex(xmlIn, "Header")], EwsSoapRequestHeader,
                       ewsTypes[EwsSoapRequestHeader].JsonType).obj

\* C15: when the request header holds RequestServerVersion with a Version
\* attribute, RequestServerVersion in the JSON header is the string
\* "Exchange2013" if Version starts with Exchange2007 or Exchange2010 and the
\* Version string itself otherwise; every other key of the header is as
\* translated.
C15_VersionUpgraded ==
    (RequestTranslated /\ HasVersion(xmlIn)) =>
        /\ JsonHeader.k = "oobj"
        /\ MemberValue(JsonHeader.o, "RequestServerVersion") =
              JStr(IF RequestedVersion(xmlIn)[1] \in {"Exchange2007", "Exchange2010"}
                   THEN <<"Exchange2013">>
                   ELSE RequestedVersion(xmlIn))
        /\ KeysOf(JsonHeader.o) = KeysOf(TranslatedHeader.o)
        /\ \A i \in DOMAIN JsonHeader.o :
              JsonHeader.o[i].Key # "RequestServerVersion" =>
                  JsonHeader.o[i] = TranslatedHeader.o[i]

C15_Witness ==
    /\ RequestTranslated
    /\ HasVersion(xmlIn)
    /\ RequestedVersion(xmlIn) = <<"Exchange2010", "_SP2">>
    /\ JsonHeader.o = <<[Key |-> "__type", Value |-> JStr(Exch("JsonRequestHeaders"))],
                        [Key |-> "RequestServerVersion", Value |-> JStr(<<"Exchange2013">>)]>>

\* processJson was applied to a JSON object
ObjectGiven == pc = "valueDone" /\ jvalIn.element.k = "map"

\* the object carries a __type string that the description's type table holds
RegisteredHint(m, edesc) ==
    /\ "__type" \in DOMAIN m
    /\ m["__type"].k = "str"
    /\ m["__type"].s \in DOMAIN edesc.Types

\* the object carries a ChangeType that names an element of the description
NamedChange(m, edesc) ==
    /\ "ChangeType" \in DOMAIN m
    /\ m["ChangeType"].k = "str"
    /\ Len(m["ChangeType"].s) = 1
    /\ <<"t", m["ChangeType"].s[1]>> \in DOMAIN edesc.Elements

\* what was written for the object starts with the start tag of jt, and
\* something was written if the translation succeeded
StartsAs(jt) ==
    /\ jvalOut.err = Nil => jvalOut.out # <<>>
    /\ jvalOut.out # <<>> =>
          /\ jvalOut.out[1].k = "start"
          /\ jvalOut.out[1].tag = jt.XmlTag

\* C16: the type of a JSON object is the description's single type when it has
\* one (a __type in the value is ignored); otherwise the choice of the
\* XML-choice hook when one is registered; otherwise the entry of the
\* description's type table under the value's __type.  With no single type, no
\* hook and a missing, non-string or unregistered __type the translation
\* returns an error and writes no start tag.
C16_TypePrecedence ==
    ObjectGiven =>
        LET m == jvalIn.element.m
            e == jvalIn.edesc
        IN  /\ e.SingleType # Nil => StartsAs(e.SingleType)
            /\ (e.SingleType = Nil /\ e.XmlChoiceHook # "" /\ NamedChange(m, e)) =>
                  StartsAs(e.Elements[<<"t", m["ChangeType"].s[1]>>])
            /\ (e.SingleType = Nil /\ e.XmlChoiceHook = "" /\ RegisteredHint(m, e)) =>
                  StartsAs(e.Types[m["__type"].s])
            /\ (e.SingleType = Nil /\ e.XmlChoiceHook = "" /\ ~RegisteredHint(m, e)) =>
                  /\ jvalOut.err # Nil
                  /\ jvalOut.out = <<>>

\* the hook's choice wins over a registered hint that names another type
C16_Witness ==
    /\ ObjectGiven
    /\ jvalIn.edesc.SingleType = Nil
    /\ jvalIn.edesc.XmlChoiceHook # ""
    /\ jvalIn.element.m = ("__type" :> JStr(Exch("SyncFolderHierarchyDelete")))
                          @@ ("ChangeType" :> JText("Create"))
    /\ jvalOut.err = Nil
    /\ jvalOut.out = <<[k |-> "start", tag |-> <<"t", "Create">>, attrs |-> <<>>],
                       [k |-> "end", tag |-> <<"t", "Create">>]>>

\* the tags of the start tokens of out that are children of its first element
RECURSIVE ChildTags(_, _, _)
ChildTags(out, i, depth) ==
    IF i > Len(out) THEN <<>>
    ELSE CASE out[i].k = "start" ->
                 (IF depth = 1 THEN <<out[i].tag>> ELSE <<>>) \o ChildTags(out, i + 1, depth + 1)
           [] out[i].k = "end" -> ChildTags(out, i + 1, depth - 1)
           [] OTHER -> ChildTags(out, i + 1, depth)

\* the XML names of the declared attributes of typ whose JSON key is in m, in
\* declared order
DeclaredAttrNames(typ, m) ==
    LET present == SelectSeq(typ.Attributes, LAMBDA a : a.JN \in DOMAIN m)
    IN  [i \in DOMAIN present |-> present[i].XN]

\* the tags of the declared children of typ, in the order of its JSON elements
DeclaredTags(typ) ==
    [i \in DOMAIN typ.JsonElementList |-> typ.JsonElementList[i].SingleType.XmlTag]

\* the child keys of typ
ChildKeys(typ) == Range(DeclaredKeys(typ))

\* an object translated against a single type with child elements, each of
\* one type
ChildrenTranslated ==
    /\ ObjectTranslated
    /\ jvalIn.edesc.SingleType.Type \in {"FolderResponseShapeType", "FolderType"}

\* C17: the attributes of an object are written in the declared attribute
\* order and its children in the declared order of the JSON elements, whatever
\* the input; a declared child key holding null is consumed and writes nothing.
C17_DeclaredOrderOut ==
    ChildrenTranslated =>
        LET typ == ewsTypes[jvalIn.edesc.SingleType.Type]
            m == jvalIn.element.m
            tags == FirstOccurrences(ChildTags(jvalOut.out, 1, 0))
        IN  /\ jvalOut.err = Nil =>
                  /\ [i \in DOMAIN jvalOut.out[1].attrs |-> jvalOut.out[1].attrs[i].Name]
                        = DeclaredAttrNames(typ, m)
                  /\ \A i, j \in DOMAIN tags :
                        i < j => PositionIn(DeclaredTags(typ), tags[i])
                                    < PositionIn(DeclaredTags(typ), tags[j])
            /\ (\A key \in (DOMAIN m) \ {"__type"} : key \in ChildKeys(typ) /\ m[key] = JNull) =>
                  /\ jvalOut.err = Nil
                  /\ jvalOut.out = <<EmitStart(jvalIn.edesc.SingleType, <<>>),
                                     EmitEnd(jvalIn.edesc.SingleType)>>

\* every end token of out from position i on closes the innermost open start
\* token, stack holding the tags that are open (innermost first), and nothing
\* is left open at the end
RECURSIVE WellNested(_, _, _)
WellNested(out, i, stack) ==
    IF i > Len(out) THEN stack = <<>>
    ELSE CASE out[i].k = "start" -> WellNested(out, i + 1, <<out[i].tag>> \o stack)
           [] out[i].k = "end" ->
                 /\ stack # <<>>
                 /\ Head(stack) = out[i].tag
                 /\ WellNested(out, i + 1, Tail(stack))
           [] OTHER -> WellNested(out, i + 1, stack)

\* the tags of the start tokens of out that are not inside another element
RECURSIVE RootTags(_, _, _)
RootTags(out, i, depth) ==
    IF i > Len(out) THEN <<>>
    ELSE CASE out[i].k = "start" ->
                 (IF depth = 0 THEN <<out[i].tag>> ELSE <<>>) \o RootTags(out, i + 1, depth + 1)
           [] out[i].k = "end" -> RootTags(out, i + 1, depth - 1)
           [] OTHER -> RootTags(out, i + 1, depth)

\* JSON2SOAP returned without error
ResponseTranslated == pc = "replied" /\ j2sOut.err = Nil

\* C18: whenever JSON2SOAP returns without error, what it wrote is well
\* formed: the tags nest, the single root is soap:Envelope, and its children
\* are an optional soap:Header followed by exactly one soap:Body.
C18_WellFormedEnvelope ==
    ResponseTranslated =>
        /\ WellNested(j2sOut.out, 1, <<>>)
        /\ RootTags(j2sOut.out, 1, 0) = <<soapEnvelopeTag>>
        /\ ChildTags(j2sOut.out, 1, 0) \in
              {<<soapBodyTag>>, <<EwsSoapResponseHeader.SingleType.XmlTag, soapBodyTag>>}

\* processJsonList was applied to an array
ListGiven == pc = "valueDone" /\ jvalIn.element.k = "list"

\* the items of the array that are not null, in array order
GivenItems == SelectSeq(jvalIn.element.l, LAMBDA e : e.k # "null")

\* the text of every character-data token of out, in order
CharDatas(out) ==
    LET sel == SelectSeq(out, LAMBDA tok : tok.k = "chardata")
    IN  [i \in 1..Len(sel) |-> sel[i].t]

\* the tag an object item is written with: the items of a list of folder ids
\* are told apart by their hint, the items of the other lists are folders
ItemTag(e) ==
    IF "__type" \in DOMAIN e.m /\ e.m["__type"] = JStr(Exch("FolderId"))
    THEN <<"t", "FolderId">>
    ELSE IF "__type" \in DOMAIN e.m /\ e.m["__type"] = JStr(Exch("DistinguishedFolderId"))
    THEN <<"t", "DistinguishedFolderId">>
    ELSE <<"t", "Folder">>

\* the description's single type is a list type
WrapperDeclared ==
    /\ jvalIn.edesc.SingleType # Nil
    /\ \/ InitialTypes[jvalIn.edesc.SingleType.Type].IsList
       \/ InitialTypes[jvalIn.edesc.SingleType.Type].JsonListName # ""

\* C19: an array under a description whose single type is a list type is
\* written as one wrapper element around its items; under a description that
\* is itself a list the items are written one after another with no wrapper;
\* under any other description the translation fails. The items appear in
\* array order, null items are left out, and an item that is not an object
\* where an object is expected is an error.
C19_ListHandling ==
    ListGiven =>
        IF WrapperDeclared
        THEN /\ (\E i \in DOMAIN GivenItems : GivenItems[i].k # "map") => jvalOut.err # Nil
             /\ jvalOut.err = Nil =>
                    /\ Head(jvalOut.out) = [k |-> "start", tag |-> jvalIn.edesc.SingleType.XmlTag,
                                            attrs |-> <<>>]
                    /\ jvalOut.out[Len(jvalOut.out)] =
                            [k |-> "end", tag |-> jvalIn.edesc.SingleType.XmlTag]
                    /\ RootTags(jvalOut.out, 1, 0) = <<jvalIn.edesc.SingleType.XmlTag>>
                    /\ ChildTags(jvalOut.out, 1, 0) =
                            [i \in 1..Len(GivenItems) |-> ItemTag(GivenItems[i])]
        ELSE IF jvalIn.edesc.IsList
        THEN IF jvalIn.edesc.SingleType # Nil
             THEN jvalOut.err = Nil =>
                    /\ RootTags(jvalOut.out, 1, 0) =
                            [i \in 1..Len(GivenItems) |-> jvalIn.edesc.SingleType.XmlTag]
                    /\ CharDatas(jvalOut.out) = [i \in 1..Len(GivenItems) |-> GivenItems[i].s]
             ELSE /\ (\E i \in DOMAIN GivenItems : GivenItems[i].k # "map") => jvalOut.err # Nil
                  /\ jvalOut.err = Nil =>
                        RootTags(jvalOut.out, 1, 0) =
                            [i \in 1..Len(GivenItems) |-> ItemTag(GivenItems[i])]
        ELSE jvalOut.err # Nil

\* an array holding a folder id and a null item was written inside its
\* wrapper, the null item left out
C19_Witness ==
    /\ ListGiven
    /\ WrapperDeclared
    /\ jvalOut.err = Nil
    /\ Len(jvalIn.element.l) > Len(GivenItems)
    /\ ChildTags(jvalOut.out, 1, 0) # <<>>

\* C20: the second process, its registry built with the maps ranged over in
\* any order, succeeds exactly when the first did and writes the same
\* tokens for the same value.
C20_SameAcrossRuns ==
    [][pc = "restarted" =>
          /\ jvalOut'.out = jvalOut.out
          /\ (jvalOut'.err = Nil) = (jvalOut.err = Nil)]_vars

\* the names of types the raw type v refers to
ReferredNames(v) ==
    {v.Attributes[i].T : i \in DOMAIN v.Attributes}
    \cup {v.elements[i].T : i \in DOMAIN v.elements}
    \cup (IF v.ListItemTypeStr = "" THEN {} ELSE {v.ListItemTypeStr})

\* the types the initialized type t holds a reference to
HeldReferences(t) ==
    {t.Attrs[x] : x \in DOMAIN t.Attrs}
    \cup {t.TypeByElementName[x].Type : x \in DOMAIN t.TypeByElementName}
    \cup (IF t.ListItemTypeStr = "" THEN {} ELSE {t.ListItemType})

\* C21: Initialize fails fatally whenever the type names a type that is not
\* registered, be it as an attribute's type, a child element's type or the
\* list item type, and a type it does initialize holds no nil reference.
C21_DanglingIsFatal ==
    pc = "initDone" =>
        /\ (ReferredNames(initIn) \ TypeNames # {}) => initOut.panic
        /\ ~initOut.panic => HeldReferences(initOut.v) \subseteq TypeNames

\* the descriptor the value was translated against is one the registry holds
RegistryDescriptor(edesc) ==
    \E n \in TypeNames :
        \/ InitialTypes[n].JsonListElement = edesc
        \/ \E i \in DOMAIN InitialTypes[n].JsonElementList :
              InitialTypes[n].JsonElementList[i] = edesc

KeysSet == [i \in DOMAIN setCalls |-> setCalls[i].key]

\* the value of the most recent Set(k)
LastSet(k) ==
    setCalls[CHOOSE i \in DOMAIN setCalls :
                /\ setCalls[i].key = k
                /\ \A j \in DOMAIN setCalls : setCalls[j].key = k => j <= i].value

\* C23: after any sequence of Set calls on a new OrderedObject every key
\* occurs once in Object, in the order of its first Set; Get returns the
\* value of the most recent Set and present = false for a key never set; the
\* index map agrees with the slice; and Set returned true exactly when the
\* key was new.
C23_OrderedObject ==
    orderedObj # Nil =>
        /\ [i \in DOMAIN orderedObj.Object |-> orderedObj.Object[i].Key] = FirstOccurrences(KeysSet)
        /\ \A k \in SetKeys :
              IF \E i \in DOMAIN setCalls : setCalls[i].key = k
              THEN ObjGet(orderedObj, k) = [value |-> LastSet(k), exists |-> TRUE]
              ELSE ~ObjGet(orderedObj, k).exists
        /\ DOMAIN orderedObj.keys = {setCalls[i].key : i \in DOMAIN setCalls}
        /\ \A k \in DOMAIN orderedObj.keys :
              orderedObj.Object[orderedObj.keys[k] + 1].Key = k
        /\ setCalls # <<>> =>
              setReturn = (\A i \in 1..(Len(setCalls) - 1) :
                              setCalls[i].key # setCalls[Len(setCalls)].key)

\* a key was set again with another value after a second key had been added
C23_Witness ==
    /\ orderedObj # Nil
    /\ Len(setCalls) >= 3
    /\ setReturn = FALSE
    /\ Len(orderedObj.Object) >= 2
    /\ setCalls[Len(setCalls)].key = orderedObj.Object[1].Key
    /\ setCalls[Len(setCalls)].value # setCalls[1].value

(***************************************************************************)
(* The translation middleware                                              *)
(***************************************************************************)
\* a POST to the EWS path, waiting for the request modifier
EwsPostArrives == pc = "request" /\ request.Path = EwsPath /\ request.Method = "POST"

\* the step in which the request modifier handles a POST to the EWS path
EwsPostHandled == EwsPostArrives /\ pc' # "request"

\* C24: a POST to the EWS path is forwarded only when a non-empty canary is
\* stored when the request is handled, and then the forwarded request has the
\* path OwaServicePath, the JSON content type, the Action of the operation the
\* request names and the stored canary in X-OWA-Canary; with no canary stored
\* the client receives status 440 and neither translator nor transport runs.
C24_ForwardedWithCanary ==
    [][EwsPostHandled =>
         IF OwaCanary = ""
         THEN /\ pc' = "replied"
              /\ reply'.err = Nil
              /\ reply'.response.StatusCode = 440
              /\ calls' = calls
         ELSE pc' = "forward" =>
              /\ request'.Path = OwaServicePath
              /\ request'.Header["Content-Type"] = "application/json; charset=UTF-8"
              /\ OperationName(request.Body.doc) \in OpNames
              /\ request'.Header["Action"] = EwsOperations[OperationName(request.Body.doc)].Action
              /\ request'.Header["X-OWA-Canary"] = OwaCanary
              /\ calls'.Transport = 0]_vars

\* a translated ResolveNames request reached the upstream with the canary
\* stored when it was handled, after the canary was replaced
C24_Witness ==
    /\ pc = "response"
    /\ forwarded.Path = OwaServicePath
    /\ forwarded.Header["Action"] = "ResolveNames"
    /\ forwarded.Header["X-OWA-Canary"] = "canary2"
    /\ OwaCanary = "canary1"
    /\ calls.SOAP2JSON = 1
    /\ calls.Transport = 1

\* a request was answered 440 by the proxy itself
C24_WitnessNoCanary ==
    /\ pc = "replied"
    /\ reply.err = Nil
    /\ reply.response.StatusCode = 440
    /\ calls = NoCalls

\* the request of this round trip was translated by the request modifier
Translated == ewsContextName \in DOMAIN cctx

\* the step in which the response modifier handles the upstream's response
ResponseHandled == pc = "response" /\ pc' = "replied"

\* C25: a 440 answer to a translated request leaves ResponseModifier with its
\* status, headers and body as they were, JSON2SOAP not run, OnEwsTimeout
\* called exactly once and OnEwsSuccess never; answers with status 302 or 504
\* pass through untranslated, and answers to requests that were not
\* translated are not touched.
C25_PassedThrough ==
    [][ResponseHandled =>
         /\ (Translated /\ response.StatusCode = 440) =>
                /\ response' = response
                /\ reply' = [response |-> response, err |-> Nil]
                /\ calls'.JSON2SOAP = 0
                /\ calls'.OnEwsTimeout = 1
                /\ calls'.OnEwsSuccess = 0
         /\ (Translated /\ response.StatusCode \in {302, 504}) =>
                /\ response' = response
                /\ reply' = [response |-> response, err |-> Nil]
                /\ calls' = calls
         /\ ~Translated =>
                /\ response' = response
                /\ reply' = [response |-> response, err |-> Nil]
                /\ calls' = calls]_vars

\* the upstream answered a translated request with 440 and the client was
\* given that answer
C25_Witness ==
    /\ pc = "replied"
    /\ Translated
    /\ response.StatusCode = 440
    /\ response.Body # Unreadable
    /\ reply.response = response
    /\ calls.OnEwsTimeout = 1
    /\ calls.Transport = 1

(***************************************************************************)
(* The chained proxy                                                       *)
(***************************************************************************)
\* the positions in trace of the calls of one kind
CallsOf(kind) == {i \in DOMAIN trace : trace[i].call = kind}

\* every call of the transport that was allowed has failed
AllRetriesFailed ==
    /\ Cardinality(CallsOf("transport")) = RetryLimit
    /\ \A i \in CallsOf("transport") : trace[i].ret = "error"

\* C27: one round trip calls the transport at most 3 times and not again
\* after a call that succeeded; when 3 calls have failed no response modifier
\* runs and the round trip returns a response with status 504 and a nil error.
C27_Retries ==
    /\ Cardinality(CallsOf("transport")) <= 3
    /\ \A i \in CallsOf("transport") :
          trace[i].ret = "nil" => \A j \in CallsOf("transport") : j <= i
    /\ AllRetriesFailed =>
          /\ CallsOf("response") = {}
          /\ pc \in {"after retries", "returned"}
          /\ pc = "returned" =>
                /\ chainReturn.err = Nil
                /\ chainReturn.response # Nil
                /\ chainReturn.response.StatusCode = 504

\* three failed calls behind a full chain, answered 504
C27_Witness ==
    /\ pc = "returned"
    /\ AllRetriesFailed
    /\ Len(chain.ResponseModifiers) = MaxMiddlewares
    /\ chainReturn.response.StatusCode = StatusGatewayTimeout
    /\ chainReturn.err = Nil

\* the calls of modifiers among the calls recorded in trace
ModifierCalls == CallsOf("request") \cup CallsOf("response")

\* the mark a modifier call leaves in the context
MarkOf(c) == IF c.call = "request" THEN c.m ELSE -c.m

\* the call at position i is the k-th of its kind
Rank(i) == Cardinality({j \in CallsOf(trace[i].call) : j <= i})

\* C28: request modifiers run in the order m1..mn and response modifiers in
\* the order mn..m1, each handed the one context of the round trip as the
\* earlier modifiers left it; a RequestError of a request modifier ends the
\* round trip with its response and a nil error, any other modifier error
\* ends it with that error and a nil response, and nothing is called after
\* either; a response modifier runs only after all n request modifiers ran.
C28_ChainOrder ==
    LET n == Len(chain.RequestModifiers)
    IN  /\ \A i \in CallsOf("request") : trace[i].m = Rank(i)
        /\ \A i \in CallsOf("response") :
              /\ trace[i].m = n + 1 - Rank(i)
              /\ \A m \in 1..n : \E j \in CallsOf("request") :
                    j < i /\ trace[j].m = m /\ trace[j].ret = "nil"
        /\ \A i \in ModifierCalls :
              /\ trace[i].ctx = {MarkOf(trace[j]) : j \in {k \in ModifierCalls : k < i}}
              /\ trace[i].ret # "nil" =>
                    /\ i = Len(trace)
                    /\ pc = "returned"
                    /\ IF trace[i].call = "request" /\ trace[i].ret = "RequestError"
                       THEN /\ chainReturn.err = Nil
                            /\ chainReturn.response # Nil
                            /\ chainReturn.response.Body = [k |-> "from", m |-> trace[i].m]
                       ELSE /\ chainReturn.response = Nil
                            /\ chainReturn.err = Err(trace[i].ret, trace[i].m)

\* a full chain ran to its end, the response modifiers in reverse
C28_Witness ==
    /\ pc = "returned"
    /\ Len(chain.RequestModifiers) = MaxMiddlewares
    /\ Cardinality(CallsOf("response")) = MaxMiddlewares
    /\ trace[Len(trace)].m = 1
    /\ trace[Len(trace)].ret = "nil"
    /\ chainReturn.response # Nil

\* a request modifier in the middle of the chain answered by itself
C28_WitnessRequestError ==
    /\ pc = "returned"
    /\ Len(trace) = 2
    /\ trace[2].ret = "RequestError"
    /\ chainReturn.err = Nil

(***************************************************************************)
(* The login middleware                                                    *)
(***************************************************************************)
\* C30: with KeepAlivePeriod > 0 at most one ticker and one keepalive loop
\* are ever started, however the successful CheckLogin calls interleave; with
\* KeepAlivePeriod = 0 none is started.
C30_OneKeepalive ==
    /\ tickersStarted <= 1
    /\ Cardinality(DOMAIN goroutines \ LoginGoroutines) <= 1
    /\ KeepAlivePeriod = 0 => tickersStarted = 0

\* goroutine g takes the step, and the step ends its CheckLogin
Returns(g) ==
    /\ g \in DOMAIN goroutines
    /\ goroutines[g].pc \in InFlight
    /\ goroutines'[g].pc = "returned"

\* C29: what checking one canary yields never changes the stored canary when
\* that is a different one stored while the check was under way: a failed
\* check of A does not clear it and a successful check of A does not replace
\* it.
C29_NoClobber ==
    [][\A g \in DOMAIN goroutines :
          (/\ Returns(g)
           /\ OwaCanary # goroutines[g].canary
           /\ OwaCanary \in goroutines[g].meanwhile)
          => OwaCanary' = OwaCanary]_vars

\* the call of CheckLogin a step of the single caller makes
LastCall == goroutines'[Caller]

\* C26: CheckLogin(c) stores c and returns true only when the keepalive call
\* was answered 200 with both markers in the body; on another status, an
\* unreadable body or a missing marker it clears the stored canary and
\* returns false; on a network error or an empty c it returns false and the
\* stored canary is what it was.
C26_CheckLogin ==
    [][/\ LastCall.ret <=> (LastCall.canary # "" /\ LastCall.upstream = "ok")
       /\ LastCall.ret => OwaCanary' = LastCall.canary
       /\ (LastCall.canary # "" /\ LastCall.upstream \in {"status", "unreadable", "marker"})
             => OwaCanary' = ""
       /\ (LastCall.canary = "" \/ LastCall.upstream = "network")
             => OwaCanary' = OwaCanary]_vars

\* a network error met while another canary was stored
C26_Witness ==
    /\ pc = "check"
    /\ goroutines[Caller].pc = "done"
    /\ "onSuccess" \in callbacks
    /\ goroutines[Caller].canary = "canaryB"
    /\ goroutines[Caller].upstream = "network"
    /\ ~goroutines[Caller].ret
    /\ OwaCanary = "canaryA"

====
